---- MODULE Spec2Model ----
(***************************************************************************)
(* Kozane Journal (obsidian-todo): work-session state machine, daily-note  *)
(* parser, schedule predictor and aggregator.                              *)
(*                                                                         *)
(* Text is a sequence of one-element strings (one per character); a        *)
(* non-ASCII character is written by its code point ("U5206" is the        *)
(* minute sign of formatDuration).  Indices into text are 0-based, as in   *)
(* the TypeScript source, and are converted at SubSeq.                     *)
(***************************************************************************)
EXTENDS Integers, Sequences, FiniteSets, TLC

VARIABLES
    activeWork,     \* KozaneJournalPlugin.activeWork: <<>> (null) or <<ActiveWork>>
    now,            \* the host clock, in ms since midnight of day 0 (local time)
    dailyKind,      \* what the vault holds at today's daily-note path: "nofolder"
                    \* (not even the daily folder), "absent", "file" or "folder"
    dailyContent,   \* the text of today's daily note (when it is a file)
    taskModals,     \* number of open TaskSelectModal dialogs
    memoModals,     \* open MemoInputModal dialogs: the ActiveWork each captured
    running,        \* endWork calls suspended at an await
    notices,        \* the Notice texts the last step showed
    hist,           \* history: what the end-work actions have done so far
    call,           \* pure-function specifications: the call made
    result,         \* pure-function specifications: what it returned
    taskVault,      \* the tasks folder (is it there) and the task files in it
    creating,       \* createTaskFile calls suspended at an await
    returned,       \* what the createTaskFile calls have returned so far
    settings,       \* KozaneJournalPlugin.settings (the fields the model reads)
    editLog,        \* the onChange events of the settings tab so far
    pendingRenders, \* createHistoryPostProcessor: the paths with a render pending
    renders,        \* the deferred history renders that have not finished
    processed       \* number of calls of the history post-processor so far

\* createTaskFile
taskVars == <<taskVault, creating, returned>>

\* the settings tab
settingVars == <<settings, editLog>>

\* the history post-processor
historyVars == <<pendingRenders, renders, processed>>

sideVars == <<taskVars, settingVars, historyVars>>

vars == <<activeWork, now, dailyKind, dailyContent, taskModals, memoModals,
          running, notices, hist, call, result, sideVars>>

\* the plugin's work session, without the notices
sessionVars == <<activeWork, now, dailyKind, dailyContent, taskModals, memoModals,
                 running, hist>>

\* what a pure-function call leaves alone
workVars == <<activeWork, now, dailyKind, dailyContent, taskModals, memoModals,
              running, notices, hist, sideVars>>

\* what the work-session commands leave alone
pureVars == <<call, result, sideVars>>

-----------------------------------------------------------------------------
(* JavaScript strings *)

Null == <<>>

Some(x) == <<x>>

Min(S) == CHOOSE x \in S : \A y \in S : x <= y

Max(S) == CHOOSE x \in S : \A y \in S : x >= y

Digits == {"0", "1", "2", "3", "4", "5", "6", "7", "8", "9"}

DigitVal(c) ==
    CASE c = "0" -> 0 [] c = "1" -> 1 [] c = "2" -> 2 [] c = "3" -> 3
      [] c = "4" -> 4 [] c = "5" -> 5 [] c = "6" -> 6 [] c = "7" -> 7
      [] c = "8" -> 8 [] c = "9" -> 9

DigitChar(d) ==
    CASE d = 0 -> "0" [] d = 1 -> "1" [] d = 2 -> "2" [] d = 3 -> "3"
      [] d = 4 -> "4" [] d = 5 -> "5" [] d = 6 -> "6" [] d = 7 -> "7"
      [] d = 8 -> "8" [] d = 9 -> "9"

\* \s of a regular expression and the characters String.prototype.trim removes
IsSpace(c) == c \in {" ", "\t", "\n", "\r"}

\* the characters "." of a regular expression does not match
IsLineTerminator(c) == c \in {"\n", "\r"}

\* s.substring(from, to), 0-based, to exclusive
Substring(s, from, to) == SubSeq(s, from + 1, to)

\* s.startsWith(p)
StartsWith(s, p) == Len(s) >= Len(p) /\ SubSeq(s, 1, Len(p)) = p

\* s.indexOf(p, from): the first 0-based position >= from where p occurs, or -1
IndexOf(s, p, from) ==
    LET at == {i \in from..(Len(s) - Len(p)) : SubSeq(s, i + 1, i + Len(p)) = p}
    IN  IF at = {} THEN -1 ELSE Min(at)

TrimEnd(s) ==
    LET keep == {i \in 1..Len(s) : ~IsSpace(s[i])}
    IN  IF keep = {} THEN <<>> ELSE SubSeq(s, 1, Max(keep))

TrimStart(s) ==
    LET keep == {i \in 1..Len(s) : ~IsSpace(s[i])}
    IN  IF keep = {} THEN <<>> ELSE SubSeq(s, Min(keep), Len(s))

Trim(s) == TrimStart(TrimEnd(s))

\* s.split(c) for a one-character separator c
RECURSIVE Split(_, _)
Split(s, c) ==
    LET at == IndexOf(s, <<c>>, 0)
    IN  IF at = -1 THEN <<s>>
        ELSE <<Substring(s, 0, at)>> \o Split(Substring(s, at + 1, Len(s)), c)

\* s.split("\n")
SplitLines(s) == Split(s, "\n")

\* lines.join("\n")
RECURSIVE JoinLines(_)
JoinLines(ls) ==
    IF Len(ls) = 0 THEN <<>>
    ELSE IF Len(ls) = 1 THEN ls[1]
    ELSE ls[1] \o <<"\n">> \o JoinLines(Tail(ls))

\* parseInt of a string of decimal digits
RECURSIVE ParseInt(_)
ParseInt(ds) ==
    IF Len(ds) = 0 THEN 0
    ELSE 10 * ParseInt(SubSeq(ds, 1, Len(ds) - 1)) + DigitVal(ds[Len(ds)])

\* n.toString().padStart(2, "0") for n >= 0
RECURSIVE NumToString(_)
NumToString(n) ==
    IF n < 10 THEN <<DigitChar(n)>>
    ELSE NumToString(n \div 10) \o <<DigitChar(n % 10)>>

PadStart2(n) == IF n < 10 THEN <<"0">> \o NumToString(n) ELSE NumToString(n)

-----------------------------------------------------------------------------
(* parser.ts: the log-line grammar *)

\* /(\d{2}):(\d{2})-(\d{2}):(\d{2})/ matches at 0-based position i
TimeRangeAt(line, i) ==
    /\ i + 11 <= Len(line)
    /\ \A k \in {1, 2, 4, 5, 7, 8, 10, 11} : line[i + k] \in Digits
    /\ line[i + 3] = ":"
    /\ line[i + 6] = "-"
    /\ line[i + 9] = ":"

\* the position of the leftmost match of the time range, or -1
TimeMatch(line) ==
    LET at == {i \in 0..(Len(line) - 11) : TimeRangeAt(line, i)}
    IN  IF at = {} THEN -1 ELSE Min(at)

\* the end (exclusive) of the run of characters other than "]" that starts at i
NameEnd(line, i) ==
    LET stop == {j \in i..(Len(line) - 1) : line[j + 1] = "]"}
    IN  IF stop = {} THEN Len(line) ELSE Min(stop)

\* /\[\[([^\]]+)\]\]/ matches at 0-based position i: "[[", one or more
\* characters other than "]" (the greedy run cannot be shortened: the
\* character after a shorter run is not "]"), then "]]"
WikilinkAt(line, i) ==
    /\ i + 2 <= Len(line)
    /\ line[i + 1] = "[" /\ line[i + 2] = "["
    /\ LET e == NameEnd(line, i + 2)
       IN  /\ e > i + 2
           /\ e + 2 <= Len(line)
           /\ line[e + 1] = "]" /\ line[e + 2] = "]"

\* the position of the leftmost wikilink, or -1
TaskMatch(line) ==
    LET at == {i \in 0..(Len(line) - 2) : WikilinkAt(line, i)}
    IN  IF at = {} THEN -1 ELSE Min(at)

\* taskMatch[1]
TaskName(line) ==
    LET i == TaskMatch(line) IN Substring(line, i + 2, NameEnd(line, i + 2))

\* the length of the run of \s characters at the head of s
SpaceRun(s) ==
    LET stop == {j \in 1..Len(s) : ~IsSpace(s[j])}
    IN  IF stop = {} THEN Len(s) ELSE Min(stop) - 1

\* /\]\]\s*\/\s*(.+)$/ tried at 0-based position i: <<>> if it does not match
\* there, else <<group 1>>.  After "]]", white space and "/", the second \s*
\* is greedy but gives back one character when it would leave (.+) empty;
\* (.+) runs to the end of the line and matches no line terminator.
NoteAt(line, i) ==
    IF ~(i + 2 <= Len(line) /\ line[i + 1] = "]" /\ line[i + 2] = "]") THEN Null
    ELSE LET afterBr == Substring(line, i + 2, Len(line))
             slash   == SpaceRun(afterBr)
         IN  IF ~(slash < Len(afterBr) /\ afterBr[slash + 1] = "/") THEN Null
             ELSE LET rest == Substring(afterBr, slash + 1, Len(afterBr))
                      w    == SpaceRun(rest)
                      skip == IF w < Len(rest) THEN w ELSE Len(rest) - 1
                      grp  == Substring(rest, skip, Len(rest))
                  IN  IF Len(rest) = 0 THEN Null
                      ELSE IF \E k \in 1..Len(grp) : IsLineTerminator(grp[k])
                      THEN Null
                      ELSE Some(grp)

\* noteMatch ? noteMatch[1].trim() : ""
LogNote(line) ==
    LET at == {i \in 0..(Len(line) - 2) : NoteAt(line, i) # Null}
    IN  IF at = {} THEN <<>> ELSE Trim(NoteAt(line, Min(at))[1])

\* the clamp left out
ClampNonNeg_Unclamped(d) == d

\* Math.max(0, d)
ClampNonNeg(d) == IF d > 0 THEN d ELSE 0

\* parseLogLine(line, date): Null, or <<the WorkLogEntry>>
parseLogLine(line, date) ==
    LET t == TimeMatch(line)
    IN  IF t = -1 \/ TaskMatch(line) = -1 THEN Null
        ELSE LET startHour == ParseInt(Substring(line, t, t + 2))
                 startMin  == ParseInt(Substring(line, t + 3, t + 5))
                 endHour   == ParseInt(Substring(line, t + 6, t + 8))
                 endMin    == ParseInt(Substring(line, t + 9, t + 11))
                 durationMinutes ==
                     (endHour * 60 + endMin) - (startHour * 60 + startMin)
             IN  Some([date            |-> date,
                       startTime       |-> Substring(line, t, t + 5),
                       endTime         |-> Substring(line, t + 6, t + 11),
                       taskName        |-> TaskName(line),
                       note            |-> LogNote(line),
                       durationMinutes |-> ClampNonNeg(durationMinutes)])

\* the constant "## " + sectionName
SectionHeader(name) == <<"#", "#", " ">> \o name

\* the loop of parseLogEntries over lines[k..]: the entries pushed from there
\* on, given the inLogSection flag on entry
RECURSIVE LogLoop(_, _, _, _, _)
LogLoop(lines, k, inLogSection, header, date) ==
    IF k > Len(lines) THEN <<>>
    ELSE LET line == lines[k]
         IN  IF Trim(line) = header
             THEN LogLoop(lines, k + 1, TRUE, header, date)
             ELSE IF inLogSection /\ StartsWith(line, <<"#", "#">>)
             THEN <<>>
             ELSE IF inLogSection /\ StartsWith(Trim(line), <<"-">>)
             THEN parseLogLine(line, date)
                      \o LogLoop(lines, k + 1, inLogSection, header, date)
             ELSE LogLoop(lines, k + 1, inLogSection, header, date)

\* parseLogEntries(content, date, settings)
parseLogEntries(content, date, logSectionName) ==
    LogLoop(SplitLines(content), 1, FALSE, SectionHeader(logSectionName), date)

-----------------------------------------------------------------------------
(* parser.ts: the plan-line grammar *)

\* \w of a regular expression: ASCII letters, digits and "_"
IsWordChar(c) ==
    c \in Digits \cup {"_"} \cup
          {"a", "b", "c", "d", "e", "f", "g", "h", "i", "j", "k", "l", "m",
           "n", "o", "p", "q", "r", "s", "t", "u", "v", "w", "x", "y", "z",
           "A", "B", "C", "D", "E", "F", "G", "H", "I", "J", "K", "L", "M",
           "N", "O", "P", "Q", "R", "S", "T", "U", "V", "W", "X", "Y", "Z"}

\* the end (exclusive, 0-based) of the run of digits that starts at i
DigitsEnd(s, i) ==
    LET stop == {j \in i..(Len(s) - 1) : s[j + 1] \notin Digits}
    IN  IF stop = {} THEN Len(s) ELSE Min(stop)

\* s has c at 0-based position i
CharAt(s, i, c) == i >= 0 /\ i < Len(s) /\ s[i + 1] = c

\* /(\d+(?:\.\d+)?)h\b/ tried at 0-based position i: <<>> if it does not
\* match there, else <<integer digits, fraction digits>>.  The digit runs
\* are greedy and cannot be shortened (a digit would have to be "." or "h");
\* \b holds after "h" at the end of the text or before a non-word character.
HourAt(s, i) ==
    IF ~(i < Len(s) /\ s[i + 1] \in Digits) THEN Null
    ELSE LET e1 == DigitsEnd(s, i)
             e2 == DigitsEnd(s, e1 + 1)
             boundaryAfter(h) == h + 1 >= Len(s) \/ ~IsWordChar(s[h + 2])
         IN  IF CharAt(s, e1, ".") /\ e2 > e1 + 1 /\ CharAt(s, e2, "h")
                /\ boundaryAfter(e2)
             THEN Some(<<Substring(s, i, e1), Substring(s, e1 + 1, e2)>>)
             ELSE IF CharAt(s, e1, "h") /\ boundaryAfter(e1)
             THEN Some(<<Substring(s, i, e1), <<>>>>)
             ELSE Null

\* hourMatch: <<>> or <<integer digits, fraction digits>> of the leftmost match
HourMatch(s) ==
    LET at == {i \in 0..(Len(s) - 1) : HourAt(s, i) # Null}
    IN  IF at = {} THEN Null ELSE HourAt(s, Min(at))

\* /(\d+)min/ tried at 0-based position i
MinAt(s, i) ==
    /\ i < Len(s) /\ s[i + 1] \in Digits
    /\ LET e == DigitsEnd(s, i)
       IN  CharAt(s, e, "m") /\ CharAt(s, e + 1, "i") /\ CharAt(s, e + 2, "n")

\* minMatch: <<>> or <<digits>> of the leftmost match
MinMatch(s) ==
    LET at == {i \in 0..(Len(s) - 1) : MinAt(s, i)}
    IN  IF at = {} THEN Null
        ELSE Some(Substring(s, Min(at), DigitsEnd(s, Min(at))))

RECURSIVE Pow10(_)
Pow10(k) == IF k = 0 THEN 1 ELSE 10 * Pow10(k - 1)

\* Math.round(parseFloat(int "." frac) * 60): the product as an exact
\* fraction, rounded half up (the fractions of the model, .5, .25 and .125, are
\* exact in binary floating point)
RoundHours(int, frac) ==
    LET den == Pow10(Len(frac))
        num == (ParseInt(int) * den + ParseInt(frac)) * 60
    IN  (2 * num + den) \div (2 * den)

\* (?:\s+\d+(?:\.\d+)?h|\s+\d+min)?$ : s is empty, or white space and a
\* duration token that ends the line
IsDurationTail(s) ==
    \/ Len(s) = 0
    \/ LET k  == SpaceRun(s)
           e1 == DigitsEnd(s, k)
           e2 == DigitsEnd(s, e1 + 1)
       IN  /\ k >= 1 /\ e1 > k
           /\ \/ CharAt(s, e1, "h") /\ e1 + 1 = Len(s)
              \/ CharAt(s, e1, ".") /\ e2 > e1 + 1 /\ CharAt(s, e2, "h")
                   /\ e2 + 1 = Len(s)
              \/ CharAt(s, e1, "m") /\ CharAt(s, e1 + 1, "i")
                   /\ CharAt(s, e1 + 2, "n") /\ e1 + 3 = Len(s)

\* /\]\]\s*\/\s*(.+?)(?:\s+\d+(?:\.\d+)?h|\s+\d+min)?$/ tried at 0-based
\* position i: <<>>, or <<group 1>>.  The \s* after "/" is greedy (the
\* longest skip that lets the rest match is taken); (.+?) is lazy (the
\* shortest group that leaves a duration tail or nothing).
SubTaskAt(line, i) ==
    IF ~(CharAt(line, i, "]") /\ CharAt(line, i + 1, "]")) THEN Null
    ELSE LET afterBr == Substring(line, i + 2, Len(line))
             slash   == SpaceRun(afterBr)
         IN  IF ~CharAt(afterBr, slash, "/") THEN Null
             ELSE LET rest == Substring(afterBr, slash + 1, Len(afterBr))
                      w    == SpaceRun(rest)
                      ok(j, l) ==
                          /\ \A k \in (j + 1)..(j + l) : ~IsLineTerminator(rest[k])
                          /\ IsDurationTail(Substring(rest, j + l, Len(rest)))
                      skips == {j \in 0..w :
                                   \E l \in 1..(Len(rest) - j) : ok(j, l)}
                  IN  IF skips = {} THEN Null
                      ELSE LET j == Max(skips)
                               l == Min({m \in 1..(Len(rest) - j) : ok(j, m)})
                           IN  Some(Substring(rest, j, j + l))

\* noteMatch ? noteMatch[1].trim() : ""
SubTask(line) ==
    LET at == {i \in 0..(Len(line) - 2) : SubTaskAt(line, i) # Null}
    IN  IF at = {} THEN <<>> ELSE Trim(SubTaskAt(line, Min(at))[1])

\* line.trim().replace(/^-\s*/, "")
TrimmedContent(line) ==
    LET t == Trim(line)
    IN  IF StartsWith(t, <<"-">>)
        THEN LET r == Tail(t) IN Substring(r, SpaceRun(r), Len(r))
        ELSE t

\* no line taken as struck through
IsCancelled_Never(line) == FALSE

\* trimmedContent.startsWith("~~")
IsCancelled(line) == StartsWith(TrimmedContent(line), <<"~", "~">>)

\* parsePlanLine(line): Null, or <<the PlanEntry>>
parsePlanLine(line) ==
    IF IsCancelled(line) \/ TaskMatch(line) = -1 THEN Null
    ELSE LET hourMatch == HourMatch(line)
             minMatch  == MinMatch(line)
             plannedMinutes ==
                 IF hourMatch # Null
                 THEN RoundHours(hourMatch[1][1], hourMatch[1][2])
                 ELSE IF minMatch # Null THEN ParseInt(minMatch[1])
                 ELSE 0
         IN  Some([taskName       |-> TaskName(line),
                   subTask        |-> SubTask(line),
                   plannedMinutes |-> plannedMinutes])

\* the loop of parsePlanEntries over lines[k..]
RECURSIVE PlanLoop(_, _, _, _)
PlanLoop(lines, k, inPlanSection, header) ==
    IF k > Len(lines) THEN <<>>
    ELSE LET line == lines[k]
         IN  IF Trim(line) = header
             THEN PlanLoop(lines, k + 1, TRUE, header)
             ELSE IF inPlanSection /\ StartsWith(line, <<"#", "#", " ">>)
                       /\ ~StartsWith(line, <<"#", "#", "#", " ">>)
             THEN <<>>
             ELSE IF inPlanSection /\ StartsWith(Trim(line), <<"-">>)
             THEN parsePlanLine(line) \o PlanLoop(lines, k + 1, inPlanSection, header)
             ELSE PlanLoop(lines, k + 1, inPlanSection, header)

\* parsePlanEntries(content, settings)
parsePlanEntries(content, planSectionName) ==
    PlanLoop(SplitLines(content), 1, FALSE, SectionHeader(planSectionName))

-----------------------------------------------------------------------------
(* parser.ts: time utilities.  A JavaScript number is an integer or NaN;   *)
(* NaN is a value no computation of the model reaches otherwise.           *)

NaN == -999999999

IsNaN(x) == x = NaN

NumAdd(a, b) == IF IsNaN(a) \/ IsNaN(b) THEN NaN ELSE a + b

NumSub(a, b) == IF IsNaN(a) \/ IsNaN(b) THEN NaN ELSE a - b

NumMul(a, b) == IF IsNaN(a) \/ IsNaN(b) THEN NaN ELSE a * b

\* a comparison with NaN is false
NumLt(a, b) == ~IsNaN(a) /\ ~IsNaN(b) /\ a < b

NumLe(a, b) == ~IsNaN(a) /\ ~IsNaN(b) /\ a <= b

\* Number(s) for text over digits, letters, ":" and white space: white space
\* is trimmed, "" is 0, a run of digits is its value, anything else is NaN
JsNumber(s) ==
    LET t == Trim(s)
    IN  IF \A k \in 1..Len(t) : t[k] \in Digits THEN ParseInt(t) ELSE NaN

\* a % b of JavaScript for b > 0: the sign of the result is that of a
JsRem(a, b) == IF a >= 0 THEN a % b ELSE 0 - ((0 - a) % b)

\* n.toString() of an integer or NaN
JsToString(n) ==
    IF IsNaN(n) THEN <<"N", "a", "N">>
    ELSE IF n < 0 THEN <<"-">> \o NumToString(0 - n)
    ELSE NumToString(n)

\* s.padStart(2, "0")
PadStart(s) == IF Len(s) < 2 THEN <<"0">> \o s ELSE s

\* parseTimeToMinutes(time): [h, m] = time.split(":").map(Number); a missing
\* second part is undefined, and h * 60 + undefined is NaN
parseTimeToMinutes(time) ==
    LET parts == Split(time, ":")
        h     == JsNumber(parts[1])
        m     == IF Len(parts) >= 2 THEN JsNumber(parts[2]) ELSE NaN
    IN  NumAdd(NumMul(h, 60), m)

\* the hours not wrapped at 24
minutesToTimeStr_NoWrap(totalMinutes) ==
    IF IsNaN(totalMinutes) THEN <<"N", "a", "N", ":", "N", "a", "N">>
    ELSE LET h == totalMinutes \div 60
             m == JsRem(totalMinutes, 60)
         IN  PadStart(JsToString(h)) \o <<":">> \o PadStart(JsToString(m))

\* minutesToTimeStr(totalMinutes); Math.floor is \div, which rounds down
minutesToTimeStr(totalMinutes) ==
    IF IsNaN(totalMinutes) THEN <<"N", "a", "N", ":", "N", "a", "N">>
    ELSE LET h == JsRem(totalMinutes \div 60, 24)
             m == JsRem(totalMinutes, 60)
         IN  PadStart(JsToString(h)) \o <<":">> \o PadStart(JsToString(m))

Hours == <<"U6642", "U9593">>           \* the hour sign of formatDuration

Minutes == <<"U5206">>                  \* the minute sign

Over == <<"U8D85", "U904E">>            \* the overrun suffix

\* the minute segment kept when the minutes are zero, the hour segment
\* dropped when the minutes are not
FormatNonNeg_Lossy(totalMinutes) ==
    LET hours == totalMinutes \div 60
        mins  == totalMinutes % 60
    IN  IF mins = 0 /\ hours > 0 THEN NumToString(hours) \o Hours
        ELSE NumToString(mins) \o Minutes

\* formatDuration(totalMinutes) for totalMinutes >= 0
FormatNonNeg(totalMinutes) ==
    LET hours == totalMinutes \div 60
        mins  == totalMinutes % 60
    IN  IF hours = 0 THEN NumToString(mins) \o Minutes
        ELSE IF mins = 0 THEN NumToString(hours) \o Hours
        ELSE NumToString(hours) \o Hours \o NumToString(mins) \o Minutes

\* formatDuration(totalMinutes)
formatDuration(totalMinutes) ==
    IF totalMinutes < 0 THEN FormatNonNeg(0 - totalMinutes) \o Over
    ELSE FormatNonNeg(totalMinutes)

\* the boundary test of the lunch span taken inclusively
adjustForLunchBreak_TouchingCounts(startMinutes, remainingMinutes, lunchStartTime, lunchEndTime) ==
    LET lunchStart    == parseTimeToMinutes(lunchStartTime)
        lunchEnd      == parseTimeToMinutes(lunchEndTime)
        lunchDuration == NumSub(lunchEnd, lunchStart)
        naiveEnd      == startMinutes + remainingMinutes
    IN  IF NumLe(lunchDuration, 0) THEN startMinutes + remainingMinutes
        ELSE IF NumLe(lunchStart, startMinutes) /\ NumLt(startMinutes, lunchEnd)
        THEN NumAdd(lunchEnd, remainingMinutes)
        ELSE IF NumLt(startMinutes, lunchStart) /\ NumLe(lunchStart, naiveEnd)
        THEN NumAdd(naiveEnd, lunchDuration)
        ELSE naiveEnd

\* a start during lunch not moved to the end of lunch
adjustForLunchBreak_LunchCounted(startMinutes, remainingMinutes, lunchStartTime, lunchEndTime) ==
    LET lunchStart    == parseTimeToMinutes(lunchStartTime)
        lunchEnd      == parseTimeToMinutes(lunchEndTime)
        lunchDuration == NumSub(lunchEnd, lunchStart)
        naiveEnd      == startMinutes + remainingMinutes
    IN  IF NumLe(lunchDuration, 0) THEN startMinutes + remainingMinutes
        ELSE IF NumLt(startMinutes, lunchStart) /\ NumLt(lunchStart, naiveEnd)
        THEN NumAdd(naiveEnd, lunchDuration)
        ELSE naiveEnd

\* adjustForLunchBreak(startMinutes, remainingMinutes, lunchStartTime,
\* lunchEndTime)
adjustForLunchBreak(startMinutes, remainingMinutes, lunchStartTime, lunchEndTime) ==
    LET lunchStart    == parseTimeToMinutes(lunchStartTime)
        lunchEnd      == parseTimeToMinutes(lunchEndTime)
        lunchDuration == NumSub(lunchEnd, lunchStart)
        naiveEnd      == startMinutes + remainingMinutes
    IN  IF NumLe(lunchDuration, 0) THEN startMinutes + remainingMinutes
        ELSE IF NumLe(lunchStart, startMinutes) /\ NumLt(startMinutes, lunchEnd)
        THEN NumAdd(lunchEnd, remainingMinutes)
        ELSE IF NumLt(startMinutes, lunchStart) /\ NumLt(lunchStart, naiveEnd)
        THEN NumAdd(naiveEnd, lunchDuration)
        ELSE naiveEnd

-----------------------------------------------------------------------------
(* The work-session variables at rest: the state of a freshly loaded plugin *)
(* with no daily note; the pure-function specifications keep it fixed.     *)

-----------------------------------------------------------------------------
(* the status bar: calculateSchedule, in its two versions *)

RECURSIVE SumOf(_, _)
\* entries.reduce((sum, e) => sum + e[field], 0)
SumOf(entries, field) ==
    IF entries = <<>> THEN 0
    ELSE Head(entries)[field] + SumOf(Tail(entries), field)

\* entries.filter((e) => plannedTaskNames.has(e.taskName))
MatchedEntries(logEntries, planEntries) ==
    LET plannedTaskNames == {planEntries[i].taskName : i \in 1..Len(planEntries)}
    IN  SelectSeq(logEntries, LAMBDA e : e.taskName \in plannedTaskNames)

\* the order of localeCompare on two HH:MM texts
TimeKey(t) ==
    1000 * DigitVal(t[1]) + 100 * DigitVal(t[2]) + 10 * DigitVal(t[4]) + DigitVal(t[5])

\* [...logEntries].sort((a, b) => b.endTime.localeCompare(a.endTime))[0].endTime
LastEndTime(logEntries) ==
    LET ends == {logEntries[i].endTime : i \in 1..Len(logEntries)}
    IN  CHOOSE t \in ends : \A u \in ends : TimeKey(u) <= TimeKey(t)

\* `${endH.toString().padStart(2, "0")}:${endM.toString().padStart(2, "0")}`
ClockText(endMinutes) ==
    LET endH == (endMinutes \div 60) % 24
        endM == endMinutes % 60
    IN  PadStart2(endH) \o <<":">> \o PadStart2(endM)

NoPlanText == <<"U1F4DD", " ", "U4E88", "U5B9A", "U672A", "U8A2D", "U5B9A">>

DonePrefix == <<"U2705", " ", "U4E88", "U5B9A", "U5B8C", "U4E86", " ", "(", "+">>

EndPrefix == <<"U23F0", " ", "U4E88", "U5B9A", "U7D42", "U4E86", ":", " ">>

LeftPrefix == <<" ", "(", "U6B8B", "U308A", ":", " ">>

\* the text of the "completed" state
DoneText(overMinutes) == DonePrefix \o formatDuration(overMinutes) \o <<")">>

\* the text of the "predicted" state
PredictedText(predictedEndTime, remainingMinutes) ==
    EndPrefix \o predictedEndTime \o LeftPrefix
              \o formatDuration(remainingMinutes) \o <<")">>

\* the completed state entered only once the plan is exceeded
ScheduleText_StrictOver(remainingMinutes, logEntries, currentMinutes) ==
    IF remainingMinutes < 0
    THEN DoneText(0 - remainingMinutes)
    ELSE LET startMinutes ==
                 IF Len(logEntries) > 0
                 THEN parseTimeToMinutes(LastEndTime(logEntries))
                 ELSE currentMinutes
         IN  PredictedText(ClockText(startMinutes + remainingMinutes),
                           remainingMinutes)

\* the second half of calculateSchedule, from the remaining minutes on
ScheduleText(remainingMinutes, logEntries, currentMinutes) ==
    IF remainingMinutes <= 0
    THEN DoneText(IF remainingMinutes < 0 THEN 0 - remainingMinutes
                                           ELSE remainingMinutes)
    ELSE LET startMinutes ==
                 IF Len(logEntries) > 0
                 THEN parseTimeToMinutes(LastEndTime(logEntries))
                 ELSE currentMinutes
         IN  PredictedText(ClockText(startMinutes + remainingMinutes),
                           remainingMinutes)

\* matchedLoggedMinutes
LoggedMinutes(logEntries, planEntries) ==
    SumOf(MatchedEntries(logEntries, planEntries), "durationMinutes")

\* calculateSchedule(content, settings), the version that subtracts the
\* logged time of planned tasks; currentMinutes is the clock it reads
calculateSchedule(content, today, planSectionName, logSectionName, currentMinutes) ==
    LET planEntries == parsePlanEntries(content, planSectionName)
        logEntries  == parseLogEntries(content, today, logSectionName)
        totalPlannedMinutes == SumOf(planEntries, "plannedMinutes")
    IN  IF totalPlannedMinutes = 0 THEN NoPlanText
        ELSE ScheduleText(totalPlannedMinutes - LoggedMinutes(logEntries, planEntries),
                          logEntries, currentMinutes)

\* calculateSchedule(content, settings), the version that subtracts all
\* logged time
calculateScheduleTotal(content, today, planSectionName, logSectionName, currentMinutes) ==
    LET planEntries == parsePlanEntries(content, planSectionName)
        logEntries  == parseLogEntries(content, today, logSectionName)
        totalPlannedMinutes == SumOf(planEntries, "plannedMinutes")
        totalLoggedMinutes  == SumOf(logEntries, "durationMinutes")
    IN  IF totalPlannedMinutes = 0 THEN NoPlanText
        ELSE ScheduleText(totalPlannedMinutes - totalLoggedMinutes,
                          logEntries, currentMinutes)

-----------------------------------------------------------------------------
(* sidebar-view.ts: buildTaskSummaryMap.  A Map is the sequence of its
   values in insertion order. *)

\* the position of the summary of taskName in map, 0 if there is none
MapIndex(map, taskName) ==
    LET at == {i \in 1..Len(map) : map[i].taskName = taskName}
    IN  IF at = {} THEN 0 ELSE Min(at)

\* a repeated task counted once, its first entry only
Upsert_FirstOnly(map, entry) ==
    IF MapIndex(map, entry.taskName) # 0 THEN map
    ELSE Append(map, [taskName     |-> entry.taskName,
                      totalMinutes |-> entry.durationMinutes,
                      sessionCount |-> 1,
                      workDays     |-> {entry.date}])

\* the total of a task met again overwritten, not added to
Upsert_LastWins(map, entry) ==
    LET i == MapIndex(map, entry.taskName)
    IN  IF i # 0
        THEN [map EXCEPT ![i] =
                 [@ EXCEPT !.totalMinutes = entry.durationMinutes,
                           !.sessionCount = @ + 1,
                           !.workDays     = @ \cup {entry.date}]]
        ELSE Append(map, [taskName     |-> entry.taskName,
                          totalMinutes |-> entry.durationMinutes,
                          sessionCount |-> 1,
                          workDays     |-> {entry.date}])

\* the body of the loop of buildTaskSummaryMap
Upsert(map, entry) ==
    LET i == MapIndex(map, entry.taskName)
    IN  IF i # 0
        THEN [map EXCEPT ![i] =
                 [@ EXCEPT !.totalMinutes = @ + entry.durationMinutes,
                           !.sessionCount = @ + 1,
                           !.workDays     = @ \cup {entry.date}]]
        ELSE Append(map, [taskName     |-> entry.taskName,
                          totalMinutes |-> entry.durationMinutes,
                          sessionCount |-> 1,
                          workDays     |-> {entry.date}])

RECURSIVE SummaryLoop(_, _)
\* for (const entry of entries) { ... }
SummaryLoop(entries, map) ==
    IF entries = <<>> THEN map
    ELSE SummaryLoop(Tail(entries), Upsert(map, Head(entries)))

\* x put before its equals: ties in reverse order of arrival
InsertByTotal_TiesReversed(sorted, x) ==
    LET before == Cardinality({i \in 1..Len(sorted) :
                                  sorted[i].totalMinutes > x.totalMinutes})
    IN  SubSeq(sorted, 1, before) \o <<x>> \o SubSeq(sorted, before + 1, Len(sorted))

\* x put into a sequence sorted by totalMinutes descending, after its equals
InsertByTotal(sorted, x) ==
    LET before == Cardinality({i \in 1..Len(sorted) :
                                  sorted[i].totalMinutes >= x.totalMinutes})
    IN  SubSeq(sorted, 1, before) \o <<x>> \o SubSeq(sorted, before + 1, Len(sorted))

RECURSIVE SortByTotal(_, _)
\* [...map.entries()].sort((a, b) => b[1].totalMinutes - a[1].totalMinutes),
\* a stable sort
SortByTotal(map, sorted) ==
    IF map = <<>> THEN sorted
    ELSE SortByTotal(Tail(map), InsertByTotal(sorted, Head(map)))

\* buildTaskSummaryMap(entries)
buildTaskSummaryMap(entries) == SortByTotal(SummaryLoop(entries, <<>>), <<>>)

-----------------------------------------------------------------------------
(* types.ts: DEFAULT_SETTINGS *)

timeRoundingMinutes == 5

lunchStartTime == <<"1", "2", ":", "0", "0">>

lunchEndTime == <<"1", "3", ":", "0", "0">>

DEFAULT_SETTINGS ==
    [timeRoundingMinutes |-> timeRoundingMinutes,
     autoShowHistory     |-> TRUE,
     lunchStartTime      |-> lunchStartTime,
     lunchEndTime        |-> lunchEndTime]

\* no createTaskFile call made, an empty vault
TaskAtRest ==
    /\ taskVault = [folder |-> FALSE, files |-> {}]
    /\ creating = <<>>
    /\ returned = <<>>

\* the settings as loaded from DEFAULT_SETTINGS, no edit made
SettingsAtRest ==
    /\ settings = DEFAULT_SETTINGS
    /\ editLog = <<>>

\* no page rendered
HistoryAtRest ==
    /\ pendingRenders = {}
    /\ renders = <<>>
    /\ processed = 0

SideAtRest == TaskAtRest /\ SettingsAtRest /\ HistoryAtRest

\* no work session, no dialog, no notice
SessionAtRest ==
    /\ activeWork = Null
    /\ now = 0
    /\ dailyKind = "absent"
    /\ dailyContent = <<>>
    /\ taskModals = 0
    /\ memoModals = <<>>
    /\ running = <<>>
    /\ notices = <<>>
    /\ hist = <<>>

WorkAtRest == SessionAtRest /\ SideAtRest

-----------------------------------------------------------------------------
(* Specification SpecParser: parseLogLine and parseLogEntries on bounded   *)
(* inputs.  A log line is put together from a list marker, a time range    *)
(* written with two-digit fields, a wikilink and a note; call keeps the    *)
(* pieces, result what the parser made of the text.                        *)

Today == "2026-11-06"

LOG == <<"L", "O", "G">>                    \* DEFAULT_SETTINGS.logSectionName

ClockHours == {0, 9, 23}

ClockMins == {0, 30, 59}

Markers == {<<"-", " ">>, <<" ", " ", "-", " ">>, <<>>}

Links == {<<"[", "[", "A", "]", "]">>,          \* [[A]]
          <<"[", "[", "]", "]">>,               \* [[]]: no name
          <<"A">>}                              \* no wikilink

Notes == {<<>>,
          <<" ", "/", " ", "m", " ">>,                                    \* " / m "
          <<"/", "0", "0", ":", "0", "0", "-", "0", "0", ":", "0", "1">>, \* NoteWithRange
          <<" ", "/", " ", "m", "\r">>}                                   \* CRLF

\* HH:MM
TimeStr(h, m) == PadStart2(h) \o <<":">> \o PadStart2(m)

\* HH:MM-HH:MM
RangeStr(sh, sm, eh, em) == TimeStr(sh, sm) \o <<"-">> \o TimeStr(eh, em)

\* a range with a one-digit hour, which the pattern does not match
ShortRangeStr(sh, sm, eh, em) ==
    NumToString(sh) \o <<":">> \o PadStart2(sm) \o <<"-">> \o TimeStr(eh, em)

InitParser ==
    /\ WorkAtRest
    /\ call = [fn |-> "none"]
    /\ result = <<>>

\* the wikilink [[A]]
LinkA == <<"[", "[", "A", "]", "]">>

\* a second time range, 00:00-00:01, inside the note
NoteWithRange ==
    <<"/", "0", "0", ":", "0", "0", "-", "0", "0", ":", "0", "1">>

CallParseLogLine ==
    /\ call.fn = "none"
    /\ \E marker \in Markers, sh \in ClockHours, sm \in ClockMins,
       eh \in ClockHours, em \in ClockMins, twoDigit \in BOOLEAN,
       link \in Links, note \in Notes :
        LET matches == twoDigit \/ sh >= 10
            range == IF matches THEN RangeStr(sh, sm, eh, em)
                     ELSE ShortRangeStr(sh, sm, eh, em)
            line  == marker \o range \o <<" ">> \o link \o note
        IN  /\ call' = [fn |-> "parseLogLine", line |-> line,
                        hasRange |-> (matches \/ note = NoteWithRange),
                        hasLink |-> (link = LinkA),
                        startTotal |-> IF matches THEN sh * 60 + sm ELSE 0,
                        endTotal |-> IF matches THEN eh * 60 + em ELSE 1]
            /\ result' = parseLogLine(line, Today)
            /\ UNCHANGED workVars

MaxDocLines == 4

HeaderLOG == SectionHeader(LOG)                         \* "## LOG"

HeaderMemo == <<"#", "#", " ", "U30E1", "U30E2">>       \* the template's memo header

DocLines ==
    { HeaderLOG,
      HeaderMemo,
      <<" ">> \o HeaderMemo,                            \* an indented header
      <<"#", "#", "#", " ", "s">>,                      \* "### s"
      <<"-", " ">> \o RangeStr(9, 0, 10, 0) \o <<" ">> \o LinkA,
      <<" ", " ", "-", " ">> \o RangeStr(10, 0, 11, 30)
          \o <<" ", "[", "[", "B", "]", "]", " ", "/", " ", "n">>,
      <<"-", "-", "-">>,                                \* a separator: no tokens
      RangeStr(9, 0, 10, 0) \o <<" ">> \o LinkA }       \* tokens, no list marker

\* the documents of at most MaxDocLines lines
Docs == UNION {[1..n -> DocLines] : n \in 0..MaxDocLines}

CallParseLogEntries ==
    /\ call.fn = "none"
    /\ \E lines \in Docs :
        /\ call' = [fn |-> "parseLogEntries", lines |-> lines]
        /\ result' = parseLogEntries(JoinLines(lines), Today, LOG)
        /\ UNCHANGED workVars

NextParser == CallParseLogLine \/ CallParseLogEntries

SpecParser == InitParser /\ [][NextParser]_vars

\* C4: for every line that holds an HH:MM-HH:MM range and a [[Name]]
\* wikilink, parseLogLine returns an entry whose durationMinutes is
\* max(0, endTotal - startTotal) of the first range in the line; a reversed
\* range gives 0, never a negative value.
C4_DurationClamped ==
    (call.fn = "parseLogLine" /\ call.hasRange /\ call.hasLink) =>
        /\ result # Null
        /\ result[1].durationMinutes >= 0
        /\ result[1].durationMinutes =
               (IF call.endTotal >= call.startTotal
                THEN call.endTotal - call.startTotal ELSE 0)

\* a reversed range (23:59-09:00) has been parsed to a zero duration
C4_Witness ==
    /\ call.fn = "parseLogLine" /\ call.hasRange /\ call.hasLink
    /\ call.endTotal < call.startTotal
    /\ result # Null
    /\ result[1].durationMinutes = 0

\* the entries of the dash-prefixed lines among lines[from..to]
RECURSIVE EntriesOfLines(_, _, _)
EntriesOfLines(lines, from, to) ==
    IF from > to THEN <<>>
    ELSE (IF StartsWith(Trim(lines[from]), <<"-">>)
          THEN parseLogLine(lines[from], Today) ELSE <<>>)
         \o EntriesOfLines(lines, from + 1, to)

\* the section as the specification describes it: from the line whose
\* trimmed text is the header to the next line whose trimmed text begins
\* with "##"
SectionAsSpecified(lines) ==
    LET heads == {k \in 1..Len(lines) : Trim(lines[k]) = HeaderLOG}
    IN  IF heads = {} THEN <<>>
        ELSE LET h    == Min(heads)
                 ends == {k \in (h + 1)..Len(lines) :
                              StartsWith(Trim(lines[k]), <<"#", "#">>)}
                 e    == IF ends = {} THEN Len(lines) + 1 ELSE Min(ends)
             IN  EntriesOfLines(lines, h + 1, e - 1)

\* C5: parseLogEntries returns, in document order, exactly the entries of
\* the dash-prefixed lines after the line whose trimmed text is the header
\* and before the next line whose trimmed text begins with "##"; no line at
\* or after that next header contributes an entry.
C5_SectionEndsAtNextHeader ==
    call.fn = "parseLogEntries" => result = SectionAsSpecified(call.lines)

-----------------------------------------------------------------------------
(* Specification SpecLunch: adjustForLunchBreak and minutesToTimeStr.  The *)
(* lunch window is given as the HH:MM settings strings; call keeps the     *)
(* minute counts the strings were written from.                            *)

StartMinutes == {0, 600, 700, 719, 720, 730, 779, 780, 800, 1439}

RemainingMinutes == {0, 1, 20, 21, 60, 120, 800, 1500}

\* lunch times, in minutes since midnight: 00:00, 12:00, 12:30, 13:00, 23:59
LunchTimes == {0, 720, 750, 780, 1439}

InitLunch ==
    /\ WorkAtRest
    /\ call = [fn |-> "none"]
    /\ result = <<>>

CallAdjustForLunchBreak ==
    /\ call.fn = "none"
    /\ \E start \in StartMinutes, remaining \in RemainingMinutes,
       ls \in LunchTimes, le \in LunchTimes :
        LET startText == TimeStr(ls \div 60, ls % 60)
            endText   == TimeStr(le \div 60, le % 60)
            end == adjustForLunchBreak(start, remaining, startText, endText)
        IN  /\ call' = [fn |-> "adjustForLunchBreak", start |-> start,
                        remaining |-> remaining,
                        lunchStart |-> ls, lunchEnd |-> le,
                        lunchStartTime |-> startText,
                        lunchEndTime |-> endText]
            /\ result' = [minutes |-> end, text |-> minutesToTimeStr(end)]
            /\ UNCHANGED workVars

NextLunch == CallAdjustForLunchBreak

SpecLunch == InitLunch /\ [][NextLunch]_vars

\* C6: adjustForLunchBreak(start, remaining, lunchStart, lunchEnd) is
\* start+remaining when lunchEnd <= lunchStart; lunchEnd+remaining when
\* lunchStart <= start < lunchEnd; start+remaining+(lunchEnd-lunchStart)
\* when start < lunchStart and start+remaining > lunchStart; and
\* start+remaining otherwise.  (700, 120, "12:00", "13:00") gives 880, which
\* minutesToTimeStr renders as "14:40".
C6_LunchCases ==
    call.fn = "adjustForLunchBreak" =>
        LET s  == call.start
            r  == call.remaining
            ls == call.lunchStart
            le == call.lunchEnd
        IN  /\ le <= ls => result.minutes = s + r
            /\ (le > ls /\ ls <= s /\ s < le) => result.minutes = le + r
            /\ (le > ls /\ s < ls /\ s + r > ls) =>
                   result.minutes = s + r + (le - ls)
            /\ (le > ls /\ ~(ls <= s /\ s < le) /\ ~(s < ls /\ s + r > ls)) =>
                   result.minutes = s + r
            /\ (s = 700 /\ r = 120 /\ ls = 720 /\ le = 780) =>
                   /\ result.minutes = 880
                   /\ result.text = <<"1", "4", ":", "4", "0">>

\* the example of the claim has been computed: 11:40 + 2 h over a 12:00-13:00
\* lunch
C6_Witness ==
    /\ call.fn = "adjustForLunchBreak"
    /\ call.start = 700 /\ call.remaining = 120
    /\ call.lunchStartTime = <<"1", "2", ":", "0", "0">>
    /\ call.lunchEndTime = <<"1", "3", ":", "0", "0">>
    /\ result.minutes = 880


\* the minutes of [from, to) that are not lunch time
WorkMinutes(from, to, lunchStart, lunchEnd) ==
    Cardinality({m \in from..(to - 1) : ~(lunchStart <= m /\ m < lunchEnd)})

\* C26: for start in 0..1439, remaining >= 0 and lunchStart < lunchEnd, the
\* result r leaves lunch out exactly: [start, r) holds remaining minutes
\* outside [lunchStart, lunchEnd), and r is never strictly between
\* lunchStart and lunchEnd.
C26_LunchExcludedExactly ==
    (call.fn = "adjustForLunchBreak" /\ call.lunchStart < call.lunchEnd) =>
        LET r == result.minutes
        IN  /\ r >= call.start
            /\ WorkMinutes(call.start, r, call.lunchStart, call.lunchEnd) = call.remaining
            /\ ~(call.lunchStart < r /\ r < call.lunchEnd)

\* a start at 12:10 in a 12:00-13:00 lunch with 20 minutes left ends 13:20
C26_Witness ==
    /\ call.fn = "adjustForLunchBreak"
    /\ call.start = 730 /\ call.remaining = 20
    /\ call.lunchStart = 720 /\ call.lunchEnd = 780
    /\ result.minutes = 800

-----------------------------------------------------------------------------
(* The status bar text over daily notes with a PLAN and a LOG section *)

PLAN == <<"P", "L", "A", "N">>

MaxNoteLines == 3

\* plan lines, each with the task and minutes it stands for (counted is
\* FALSE for a struck-through line)
PlanLines ==
    { [text |-> <<"-", " ">> \o LinkA \o <<" ", "/", " ", "x", " ", "3", "0", "m", "i", "n">>,
       task |-> <<"A">>, counted |-> TRUE, planned |-> 30],
      [text |-> <<"-", " ", "[", "[", "B", "]", "]", " ", "1", ".", "5", "h">>,
       task |-> <<"B">>, counted |-> TRUE, planned |-> 90],
      [text |-> <<"-", " ", "~", "~">> \o LinkA \o <<" ", "1", "h", "~", "~">>,
       task |-> <<"A">>, counted |-> FALSE, planned |-> 0],
      [text |-> <<" ", "-", "~", "~", "[", "[", "B", "]", "]", "~", "~", " ", "3", "0", "m", "i", "n">>,
       task |-> <<"B">>, counted |-> FALSE, planned |-> 0],
      [text |-> <<"-", " ">> \o LinkA \o <<" ", "2", "h">>,
       task |-> <<"A">>, counted |-> TRUE, planned |-> 120],
      [text |-> <<" ", " ", "-", " ", "[", "[", "D", "]", "]">>,
       task |-> <<"D">>, counted |-> TRUE, planned |-> 0] }

\* log lines, each with the task, minutes and end (in minutes of the day)
\* it stands for
LogLines ==
    { [text |-> <<"-", " ">> \o TimeStr(9, 0) \o <<"-">> \o TimeStr(10, 0) \o <<" ">> \o LinkA,
       task |-> <<"A">>, minutes |-> 60, endsAt |-> 600],
      [text |-> <<"-", " ">> \o TimeStr(10, 0) \o <<"-">> \o TimeStr(11, 40)
                 \o <<" ", "[", "[", "B", "]", "]", " ", "/", " ", "n">>,
       task |-> <<"B">>, minutes |-> 100, endsAt |-> 700],
      [text |-> <<"-", " ">> \o TimeStr(11, 0) \o <<"-">> \o TimeStr(11, 30)
                 \o <<" ", "[", "[", "X", "]", "]">>,
       task |-> <<"X">>, minutes |-> 30, endsAt |-> 690],
      [text |-> <<"-", " ">> \o TimeStr(8, 0) \o <<"-">> \o TimeStr(10, 30) \o <<" ">> \o LinkA,
       task |-> <<"A">>, minutes |-> 150, endsAt |-> 630] }

CurrentMinutes == {540, 710, 1430}

\* the clock is read only when no session is logged
ClocksRead(log) == IF log = <<>> THEN CurrentMinutes ELSE {0}

SeqsUpTo(S, n) == UNION {[1..k -> S] : k \in 0..n}

\* the daily note with the given plan and log lines
NoteOf(plan, log) ==
    JoinLines(<<SectionHeader(PLAN)>> \o [i \in 1..Len(plan) |-> plan[i].text]
              \o <<<<"-", "-", "-">>, <<>>, SectionHeader(LOG)>>
              \o [i \in 1..Len(log) |-> log[i].text])

InitSchedule ==
    /\ WorkAtRest
    /\ call = [fn |-> "none"]
    /\ result = <<>>

\* the call record of a schedule computation
ScheduleCall(fn, plan, log, cur) ==
    [fn |-> fn, content |-> NoteOf(plan, log), plan |-> plan, log |-> log,
     currentMinutes |-> cur]

CallCalculateSchedule ==
    /\ call.fn = "none"
    /\ \E plan \in SeqsUpTo(PlanLines, MaxNoteLines) :
       \E log \in SeqsUpTo(LogLines, MaxNoteLines - Len(plan)) :
       \E cur \in ClocksRead(log) :
          /\ call' = ScheduleCall("calculateSchedule", plan, log, cur)
          /\ result' = calculateSchedule(call'.content, Today, PLAN, LOG, cur)
    /\ UNCHANGED workVars

CallCalculateScheduleTotal ==
    /\ call.fn = "none"
    /\ \E plan \in SeqsUpTo(PlanLines, MaxNoteLines) :
       \E log \in SeqsUpTo(LogLines, MaxNoteLines - Len(plan)) :
       \E cur \in ClocksRead(log) :
          /\ call' = ScheduleCall("calculateScheduleTotal", plan, log, cur)
          /\ result' = calculateScheduleTotal(call'.content, Today, PLAN, LOG, cur)
    /\ UNCHANGED workVars

NextSchedule == CallCalculateSchedule \/ CallCalculateScheduleTotal

SpecSchedule == InitSchedule /\ [][NextSchedule]_vars

IsScheduleCall == call.fn \in {"calculateSchedule", "calculateScheduleTotal"}

\* what the lines of the called note stand for
PlannedOf(c) == SumOf(SelectSeq(c.plan, LAMBDA r : r.counted), "planned")

PlannedTasksOf(c) == {c.plan[i].task : i \in {j \in 1..Len(c.plan) : c.plan[j].counted}}

MatchedOf(c) == SumOf(SelectSeq(c.log, LAMBDA r : r.task \in PlannedTasksOf(c)), "minutes")

TotalOf(c) == SumOf(c.log, "minutes")

StartOf(c) ==
    IF Len(c.log) = 0 THEN c.currentMinutes
    ELSE Max({c.log[i].endsAt : i \in 1..Len(c.log)})

EndsWith(s, t) == Len(s) >= Len(t) /\ SubSeq(s, Len(s) - Len(t) + 1, Len(s)) = t

\* the logged minutes the called version subtracts from the plan
LoggedOf(c) == IF c.fn = "calculateSchedule" THEN MatchedOf(c) ELSE TotalOf(c)

Abs(n) == IF n < 0 THEN 0 - n ELSE n

\* C8: calculateSchedule returns the "no plan set" text iff the planned
\* total is 0; otherwise the "completed" text with the overrun
\* |planned - logged| iff remaining <= 0; otherwise the "predicted end"
\* text whose remaining part is the positive remaining minutes (logged being
\* the minutes the version at hand subtracts).
C8_ThreeStates ==
    IsScheduleCall =>
        LET planned   == PlannedOf(call)
            remaining == planned - LoggedOf(call)
        IN  /\ (result = NoPlanText) <=> (planned = 0)
            /\ planned # 0 =>
                 /\ (result = DoneText(Abs(remaining))) <=> (remaining <= 0)
                 /\ remaining > 0 =>
                      /\ StartsWith(result, EndPrefix)
                      /\ Len(result) > Len(EndPrefix) + 5
                      /\ EndsWith(result, LeftPrefix \o FormatNonNeg(remaining) \o <<")">>)

\* a plan met exactly: the completed text with no overrun
C8_Witness ==
    /\ IsScheduleCall
    /\ PlannedOf(call) > 0
    /\ PlannedOf(call) = LoggedOf(call)
    /\ result = DoneText(0)

\* C7: in the "predicted end" state the HH:MM shown is
\* minutesToTimeStr(adjustForLunchBreak(startMinutes, remainingMinutes,
\* lunchStartTime, lunchEndTime)), startMinutes being the latest log end or
\* the clock.
C7_PredictedEndLunchAdjusted ==
    (IsScheduleCall /\ StartsWith(result, EndPrefix)) =>
        LET remaining == PlannedOf(call) - LoggedOf(call)
        IN  result = PredictedText(
                minutesToTimeStr(adjustForLunchBreak(StartOf(call), remaining,
                                                     lunchStartTime, lunchEndTime)),
                remaining)

\* C9: the remaining minutes of the schedule are
\* max(0, totalPlanned - matchedLogged), log entries of unplanned tasks not
\* counted; when that is 0 no predicted end is produced.
C9_RemainingFromMatched ==
    (IsScheduleCall /\ PlannedOf(call) > 0) =>
        LET diff      == PlannedOf(call) - MatchedOf(call)
            remaining == IF diff > 0 THEN diff ELSE 0
        IN  IF remaining = 0 THEN ~StartsWith(result, EndPrefix)
            ELSE /\ StartsWith(result, EndPrefix)
                 /\ EndsWith(result, LeftPrefix \o FormatNonNeg(remaining) \o <<")">>)

\* the plan lines that are not struck through
Kept(plan) == SelectSeq(plan, LAMBDA r : r.counted)

\* the schedule text the called version gives for a note
ScheduleOf(c, content) ==
    IF c.fn = "calculateSchedule"
    THEN calculateSchedule(content, Today, PLAN, LOG, c.currentMinutes)
    ELSE calculateScheduleTotal(content, Today, PLAN, LOG, c.currentMinutes)

\* C20: a plan line whose content after the list marker begins with "~~"
\* gives no PlanEntry: the entries of the note are those of its other plan
\* lines, and the schedule (planned total, tasks matched against the log) is
\* the one of the note without the struck-through lines.
C20_CancelledLineIgnored ==
    IsScheduleCall =>
        LET entries == parsePlanEntries(call.content, PLAN)
            kept    == Kept(call.plan)
        IN  /\ Len(entries) = Len(kept)
            /\ \A i \in 1..Len(kept) :
                  /\ entries[i].taskName = kept[i].task
                  /\ entries[i].plannedMinutes = kept[i].planned
            /\ result = ScheduleOf(call, NoteOf(kept, call.log))

\* A is struck through and B planned for 1.5 h; the hour logged on A is not
\* matched and the whole 1.5 h remain
C20_Witness ==
    /\ call.fn = "calculateSchedule"
    /\ Len(call.plan) = 2 /\ Len(call.log) = 1
    /\ \E i \in 1..2 : ~call.plan[i].counted /\ call.plan[i].task = <<"A">>
    /\ \E i \in 1..2 : call.plan[i].counted /\ call.plan[i].task = <<"B">>
    /\ call.log[1].task = <<"A">> /\ call.log[1].minutes = 60
    /\ IndexOf(result, formatDuration(90), 0) # -1

-----------------------------------------------------------------------------
(* The task summaries over lists of log entries *)

MaxEntries == 3

TaskNames == {<<"A">>, <<"a">>, <<"A", " ">>}

EntryMinutes == {0, 45}

Yesterday == "2026-11-05"

\* the fields of a WorkLogEntry that buildTaskSummaryMap reads
SummaryEntries ==
    [taskName : TaskNames, durationMinutes : EntryMinutes, date : {Yesterday, Today}]

\* A 30, B 20, A 10
ThreeSessions ==
    << [taskName |-> <<"A">>, durationMinutes |-> 30, date |-> Today],
       [taskName |-> <<"B">>, durationMinutes |-> 20, date |-> Today],
       [taskName |-> <<"A">>, durationMinutes |-> 10, date |-> Today] >>

InitSummary ==
    /\ WorkAtRest
    /\ call = [fn |-> "none"]
    /\ result = <<>>

CallBuildTaskSummaryMap ==
    /\ call.fn = "none"
    /\ \E entries \in SeqsUpTo(SummaryEntries, MaxEntries) \cup {ThreeSessions} :
          /\ call' = [fn |-> "buildTaskSummaryMap", entries |-> entries]
          /\ result' = buildTaskSummaryMap(entries)
    /\ UNCHANGED workVars

NextSummary == CallBuildTaskSummaryMap

SpecSummary == InitSummary /\ [][NextSummary]_vars

\* the entries of one task
EntriesOf(entries, taskName) == SelectSeq(entries, LAMBDA e : e.taskName = taskName)

\* C10: buildTaskSummaryMap has exactly one summary per distinct task name
\* (names compared exactly); each summary's totalMinutes is the sum of the
\* task's durations, its sessionCount the number of the task's entries and
\* its workDays the set of their dates.
C10_SummaryPerTask ==
    call.fn = "buildTaskSummaryMap" =>
        LET entries == call.entries
            names   == {entries[i].taskName : i \in 1..Len(entries)}
        IN  /\ {result[i].taskName : i \in 1..Len(result)} = names
            /\ Len(result) = Cardinality(names)
            /\ \A i \in 1..Len(result) :
                 LET own == EntriesOf(entries, result[i].taskName)
                 IN  /\ result[i].totalMinutes = SumOf(own, "durationMinutes")
                     /\ result[i].sessionCount = Len(own)
                     /\ result[i].workDays = {own[k].date : k \in 1..Len(own)}

\* two sessions of "A" on different days and one of "a": two summaries
C10_Witness ==
    /\ call.fn = "buildTaskSummaryMap"
    /\ Len(call.entries) = 3
    /\ Len(result) = 2
    /\ \E i \in 1..2 :
          /\ result[i].taskName = <<"A">>
          /\ result[i].sessionCount = 2
          /\ result[i].totalMinutes = 90
          /\ result[i].workDays = {Yesterday, Today}
    /\ \E i \in 1..2 : result[i].taskName = <<"a">>

\* the position in entries of the first entry of taskName
FirstSeen(entries, taskName) ==
    Min({i \in 1..Len(entries) : entries[i].taskName = taskName})

\* C11: the summaries of buildTaskSummaryMap are in non-increasing order of
\* totalMinutes, tasks of equal total in the order in which they were first
\* met; [A 30, B 20, A 10] gives A (40, 2 sessions) and then B (20, 1 session).
C11_SortedByTotalStable ==
    call.fn = "buildTaskSummaryMap" =>
        /\ \A i, j \in 1..Len(result) :
              i < j =>
                 /\ result[i].totalMinutes >= result[j].totalMinutes
                 /\ result[i].totalMinutes = result[j].totalMinutes =>
                        FirstSeen(call.entries, result[i].taskName)
                            < FirstSeen(call.entries, result[j].taskName)
        /\ call.entries = ThreeSessions =>
              result = << [taskName |-> <<"A">>, totalMinutes |-> 40,
                           sessionCount |-> 2, workDays |-> {Today}],
                          [taskName |-> <<"B">>, totalMinutes |-> 20,
                           sessionCount |-> 1, workDays |-> {Today}] >>

\* two tasks of equal total, the one met first reaching it last
C11_Witness ==
    /\ call.fn = "buildTaskSummaryMap"
    /\ Len(call.entries) = 3
    /\ call.entries[1].taskName = <<"a">> /\ call.entries[1].durationMinutes = 0
    /\ call.entries[2].taskName = <<"A">> /\ call.entries[2].durationMinutes = 45
    /\ call.entries[3].taskName = <<"a">> /\ call.entries[3].durationMinutes = 45
    /\ Len(result) = 2
    /\ result[1].taskName = <<"a">> /\ result[2].taskName = <<"A">>


\* the orders in which n entries can come
Orders(n) == {p \in [1..n -> 1..n] : \A i, j \in 1..n : p[i] = p[j] => i = j}

\* the summaries as a set: what is known of each task, whatever the order
PerTask(summaries) == {summaries[i] : i \in 1..Len(summaries)}

\* C27: the totalMinutes of the summaries add up to the durationMinutes of
\* the entries, the sessionCounts to the number of entries, and what a task
\* gets is the same for every order of the entries.
C27_TotalsConserved ==
    call.fn = "buildTaskSummaryMap" =>
        LET entries == call.entries
        IN  /\ SumOf(result, "totalMinutes") = SumOf(entries, "durationMinutes")
            /\ SumOf(result, "sessionCount") = Len(entries)
            /\ \A p \in Orders(Len(entries)) :
                  PerTask(buildTaskSummaryMap([i \in 1..Len(entries) |-> entries[p[i]]]))
                      = PerTask(result)

\* A 30, B 20, A 10: 60 minutes in 3 sessions, over two summaries
C27_Witness ==
    /\ call.fn = "buildTaskSummaryMap"
    /\ call.entries = ThreeSessions
    /\ Len(result) = 2
    /\ SumOf(result, "totalMinutes") = 60
    /\ SumOf(result, "sessionCount") = 3

-----------------------------------------------------------------------------
(* commands.ts: startWork and endWork, and the text endWork writes *)

\* an instant halfway between two multiples taken down to the earlier one
roundTime_HalfDown(ms, roundingMinutes) ==
    LET roundingMs == roundingMinutes * 60 * 1000
    IN  ((2 * ms + roundingMs - 1) \div (2 * roundingMs)) * roundingMs

\* roundTime(date, roundingMinutes), on milliseconds; Math.round rounds a
\* half up
roundTime(ms, roundingMinutes) ==
    LET roundingMs == roundingMinutes * 60 * 1000
    IN  ((2 * ms + roundingMs) \div (2 * roundingMs)) * roundingMs

\* formatTime(date): getHours and getMinutes of the local time
formatTime(ms) == TimeStr((ms \div 3600000) % 24, (ms \div 60000) % 60)

\* Math.round(durationMs / 60000)
DurationMinutes(startMs, endMs) == (2 * (endMs - startMs) + 60000) \div 120000

\* the log line of endWork
LogLine(work, endTime, memo) ==
    <<"-", " ">> \o formatTime(work.startTime) \o <<"-">> \o formatTime(endTime)
        \o <<" ", "[", "[">> \o work.taskName \o <<"]", "]">>
        \o (IF memo # <<>> THEN <<" ", "/", " ">> \o memo ELSE <<>>)

TodayText == <<"2", "0", "2", "6", "-", "1", "1", "-", "0", "6">>

\* the template of a new daily note
Template ==
    <<"#", " ">> \o TodayText \o <<"\n", "\n">> \o SectionHeader(PLAN)
        \o <<"\n", "\n", "\n", "-", "-", "-", "\n", "\n">> \o SectionHeader(LOG)
        \o <<"\n", "\n", "\n", "-", "-", "-", "\n", "\n">> \o HeaderMemo \o <<"\n">>

\* the new section put straight after the text, no blank line between
AppendSection_NoSeparator(content, logSectionHeader, logLine) ==
    content \o <<"\n">> \o logSectionHeader \o <<"\n", "\n">> \o logLine \o <<"\n">>

\* content += `\n\n${logSectionHeader}\n\n${logLine}\n`
AppendSection(content, logSectionHeader, logLine) ==
    content \o <<"\n", "\n">> \o logSectionHeader \o <<"\n", "\n">>
            \o logLine \o <<"\n">>

\* the separator line not taken as an end of the section
InsertIndex_SectionOnly(content, afterHeader) ==
    LET nextSectionIndex == IndexOf(content, <<"\n", "#", "#">>, afterHeader)
    IN  IF nextSectionIndex = -1 THEN Len(content) ELSE nextSectionIndex

\* insertIndex: where the log section ends
InsertIndex(content, afterHeader) ==
    LET nextSectionIndex   == IndexOf(content, <<"\n", "#", "#">>, afterHeader)
        nextSeparatorIndex == IndexOf(content, <<"\n", "-", "-", "-">>, afterHeader)
    IN  IF nextSectionIndex = -1 /\ nextSeparatorIndex = -1
        THEN Len(content)
        ELSE IF nextSectionIndex = -1 THEN nextSeparatorIndex
        ELSE IF nextSeparatorIndex = -1 THEN nextSectionIndex
        ELSE Min({nextSectionIndex, nextSeparatorIndex})

\* the body of the section kept with its trailing blank lines
SectionBody_Untrimmed(beforeInsert) == beforeInsert

\* trimmed = beforeInsert.trimEnd()
SectionBody(beforeInsert) == TrimEnd(beforeInsert)

\* the content endWork writes back: content with logLine put into the log
\* section
InsertLogLine(content, logLine, logSectionName) ==
    LET logSectionHeader == SectionHeader(logSectionName)
        logSectionIndex  == IndexOf(content, logSectionHeader, 0)
    IN  IF logSectionIndex = -1
        THEN AppendSection(content, logSectionHeader, logLine)
        ELSE LET afterHeader  == logSectionIndex + Len(logSectionHeader)
                 insertIndex  == InsertIndex(content, afterHeader)
                 beforeInsert == Substring(content, afterHeader, insertIndex)
                 trimmed      == SectionBody(beforeInsert)
             IN  Substring(content, 0, afterHeader) \o trimmed \o <<"\n">>
                     \o logLine \o <<"\n">>
                     \o Substring(content, insertIndex, Len(content))

\* startWork(app, taskFile, activeWork, settings): what it returns and the
\* notices it shows
startWork(taskFile, slot, clock) ==
    LET warning == slot # Null
        rounded == roundTime(clock, timeRoundingMinutes)
    IN  [activeWork |-> [taskName  |-> taskFile,
                         taskPath  |-> <<"5", "-", "t", "a", "s", "k", "s", "/">>
                                           \o taskFile \o <<".", "m", "d">>,
                         startTime |-> rounded],
         warning    |-> warning,
         notices    |-> (IF warning
                         THEN <<[kind |-> "alreadyWorking", taskName |-> slot[1].taskName]>>
                         ELSE <<>>)
                        \o <<[kind |-> "started", taskName |-> taskFile,
                              at |-> formatTime(rounded)]>>]

\* the callback of handleStartWork: the slot after startWork returned res
SlotAfterChoice(slot, res) == IF ~res.warning THEN Some(res.activeWork) ELSE slot

-----------------------------------------------------------------------------
(* The plugin as a state machine: the commands, the two dialogs and the     *)
(* endWork calls suspended at their awaits.  The host runs one callback at  *)
(* a time; a callback runs up to its next await.                            *)

Tasks == {<<"A">>, <<"B">>}                 \* the basenames in the tasks folder

Memos == {<<>>, <<"m">>}                    \* what the user types as a memo

MaxTaskModals == 1                          \* task dialogs open at once

MaxMemoModals == 2                          \* memo dialogs open at once

MaxEnds == 2                                \* end-work submissions

MaxTicks == 1                               \* clock advances

TickMs == 150 * 1000                        \* two and a half minutes

StartClock == 9 * 3600000                   \* 09:00

\* daily notes that exist before the plugin runs
InitNotes ==
    { Template,
      <<"#", " ", "t">>,
      SectionHeader(LOG) \o <<"\n", "-", " ">> \o RangeStr(8, 0, 8, 30)
          \o <<" ">> \o LinkA }

Init ==
    /\ activeWork = Null
    /\ now = StartClock
    /\ \/ dailyKind \in {"nofolder", "absent", "folder"} /\ dailyContent = <<>>
       \/ dailyKind = "file" /\ dailyContent \in InitNotes
    /\ taskModals = 0
    /\ memoModals = <<>>
    /\ running = <<>>
    /\ notices = <<>>
    /\ hist = <<>>
    /\ call = [fn |-> "none"]
    /\ result = <<>>
    /\ SideAtRest

\* s without its i-th element
RemoveAt(s, i) == SubSeq(s, 1, i - 1) \o SubSeq(s, i + 1, Len(s))

\* an endWork call that came to its end
Ended(proc, outcome) ==
    [session |-> proc.activeWork, logLine |-> proc.logLine, outcome |-> outcome]

\* An ActiveWork is an object: two of them with equal fields are still two.
\* The reference of a new one is a number no ActiveWork stored before has: a
\* new one is stored only into an empty slot, and the slot is emptied only
\* by an end-work callback, each of which adds to hist.
FreshRef ==
    1 + Cardinality({k \in 1..Len(hist) : hist[k].outcome \in {"written", "notFile"}})

\* the result of startWork with its newActiveWork given the reference
Allocated(res, ref) ==
    [res EXCEPT !.activeWork =
        [f \in DOMAIN res.activeWork \cup {"ref"} |->
            IF f = "ref" THEN ref ELSE res.activeWork[f]]]

\* the start-work command: handleStartWork up to the dialog
StartWorkCommand ==
    /\ \E taskFiles \in {{}, Tasks} :
          IF taskFiles = {}
          THEN /\ notices' = <<[kind |-> "noTaskFiles"]>>
               /\ UNCHANGED taskModals
          ELSE /\ taskModals < MaxTaskModals
               /\ taskModals' = taskModals + 1
               /\ notices' = <<>>
    /\ UNCHANGED <<activeWork, now, dailyKind, dailyContent, memoModals, running,
                   hist, pureVars>>

\* the user picks a task: the callback given to TaskSelectModal
ChooseTask(taskFile) ==
    /\ taskModals > 0
    /\ taskModals' = taskModals - 1
    /\ LET res == Allocated(startWork(taskFile, activeWork, now), FreshRef)
       IN  /\ activeWork' = SlotAfterChoice(activeWork, res)
           /\ notices' = res.notices
    /\ UNCHANGED <<now, dailyKind, dailyContent, memoModals, running, hist, pureVars>>

\* the user closes the task dialog without a choice
DismissTaskModal ==
    /\ taskModals > 0
    /\ taskModals' = taskModals - 1
    /\ notices' = <<>>
    /\ UNCHANGED <<activeWork, now, dailyKind, dailyContent, memoModals, running,
                   hist, pureVars>>

\* the end-work command: handleEndWork up to the dialog
EndWorkCommand ==
    /\ IF activeWork = Null
       THEN /\ notices' = <<[kind |-> "notStarted"]>>
            /\ UNCHANGED memoModals
       ELSE /\ Len(memoModals) < MaxMemoModals
            /\ memoModals' = Append(memoModals, activeWork[1])
            /\ notices' = <<>>
    /\ UNCHANGED <<activeWork, now, dailyKind, dailyContent, taskModals, running,
                   hist, pureVars>>

\* the user cancels the i-th memo dialog
CancelMemo(i) ==
    /\ i \in 1..Len(memoModals)
    /\ memoModals' = RemoveAt(memoModals, i)
    /\ notices' = <<>>
    /\ UNCHANGED <<activeWork, now, dailyKind, dailyContent, taskModals, running,
                   hist, pureVars>>

\* the user submits the i-th memo dialog: the callback of handleEndWork runs
\* endWork up to its first await; where endWork returns at once (the path
\* holds something that is not a file) the callback goes on to clear the slot
SubmitMemo(i, memo) ==
    /\ i \in 1..Len(memoModals)
    /\ Len(hist) + Len(running) < MaxEnds
    /\ memoModals' = RemoveAt(memoModals, i)
    /\ LET work    == memoModals[i]
           endTime == roundTime(now, timeRoundingMinutes)
           proc    == [activeWork |-> work,
                       logLine    |-> LogLine(work, endTime, memo),
                       minutes    |-> DurationMinutes(work.startTime, endTime),
                       content    |-> <<>>,
                       pc         |-> "none"]
       IN  CASE dailyKind = "nofolder" ->
                  /\ running' = Append(running, [proc EXCEPT !.pc = "createFolder"])
                  /\ notices' = <<>>
                  /\ UNCHANGED <<activeWork, hist>>
             [] dailyKind = "absent" ->
                  /\ running' = Append(running, [proc EXCEPT !.pc = "create"])
                  /\ notices' = <<>>
                  /\ UNCHANGED <<activeWork, hist>>
             [] dailyKind = "file" ->
                  /\ running' = Append(running, [proc EXCEPT !.pc = "read"])
                  /\ notices' = <<>>
                  /\ UNCHANGED <<activeWork, hist>>
             [] dailyKind = "folder" ->
                  /\ notices' = <<[kind |-> "createFailed"]>>
                  /\ hist' = Append(hist, Ended(proc, "notFile"))
                  /\ activeWork' = Null
                  /\ UNCHANGED running
    /\ UNCHANGED <<now, dailyKind, dailyContent, taskModals, pureVars>>

\* vault.createFolder settles; it rejects when the folder exists by now, and
\* the rejection leaves endWork and the callback of handleEndWork
CreateFolderDone(j) ==
    /\ j \in 1..Len(running)
    /\ running[j].pc = "createFolder"
    /\ notices' = <<>>
    /\ IF dailyKind = "nofolder"
       THEN /\ dailyKind' = "absent"
            /\ running' = [running EXCEPT ![j].pc = "create"]
            /\ UNCHANGED hist
       ELSE /\ running' = RemoveAt(running, j)
            /\ hist' = Append(hist, Ended(running[j], "rejected"))
            /\ UNCHANGED dailyKind
    /\ UNCHANGED <<activeWork, now, dailyContent, taskModals, memoModals, pureVars>>

\* vault.create settles; it rejects when the path is taken by now
CreateDone(j) ==
    /\ j \in 1..Len(running)
    /\ running[j].pc = "create"
    /\ notices' = <<>>
    /\ IF dailyKind = "absent"
       THEN /\ dailyKind' = "file"
            /\ dailyContent' = Template
            /\ running' = [running EXCEPT ![j].pc = "read"]
            /\ UNCHANGED hist
       ELSE /\ running' = RemoveAt(running, j)
            /\ hist' = Append(hist, Ended(running[j], "rejected"))
            /\ UNCHANGED <<dailyKind, dailyContent>>
    /\ UNCHANGED <<activeWork, now, taskModals, memoModals, pureVars>>

\* vault.read settles: endWork computes the new content and calls vault.modify
ReadDone(j) ==
    /\ j \in 1..Len(running)
    /\ running[j].pc = "read"
    /\ running' = [running EXCEPT
                      ![j].pc = "modify",
                      ![j].content = InsertLogLine(dailyContent, running[j].logLine, LOG)]
    /\ notices' = <<>>
    /\ UNCHANGED <<activeWork, now, dailyKind, dailyContent, taskModals, memoModals,
                   hist, pureVars>>

\* vault.modify settles: the note holds the new content, endWork shows its
\* notice and returns, and the callback of handleEndWork clears the slot
ModifyDone(j) ==
    /\ j \in 1..Len(running)
    /\ running[j].pc = "modify"
    /\ dailyContent' = running[j].content
    /\ notices' = <<[kind |-> "recorded", minutes |-> running[j].minutes]>>
    /\ activeWork' = Null
    /\ running' = RemoveAt(running, j)
    /\ hist' = Append(hist, Ended(running[j], "written"))
    /\ UNCHANGED <<now, dailyKind, taskModals, memoModals, pureVars>>

\* time passes
Tick ==
    /\ now < StartClock + MaxTicks * TickMs
    /\ now' = now + TickMs
    /\ notices' = <<>>
    /\ UNCHANGED <<activeWork, dailyKind, dailyContent, taskModals, memoModals,
                   running, hist, pureVars>>

Next ==
    \/ StartWorkCommand
    \/ \E taskFile \in Tasks : ChooseTask(taskFile)
    \/ DismissTaskModal
    \/ EndWorkCommand
    \/ \E i \in 1..MaxMemoModals : CancelMemo(i)
    \/ \E i \in 1..MaxMemoModals, memo \in Memos : SubmitMemo(i, memo)
    \/ \E j \in 1..MaxEnds : CreateFolderDone(j)
    \/ \E j \in 1..MaxEnds : CreateDone(j)
    \/ \E j \in 1..MaxEnds : ReadDone(j)
    \/ \E j \in 1..MaxEnds : ModifyDone(j)
    \/ Tick

Spec == Init /\ [][Next]_vars

\* C1: choosing a task while an ActiveWork is present only shows the
\* warning and leaves the stored ActiveWork (taskName, taskPath, startTime)
\* as it was.
C1_StartWhileActiveOnlyWarns ==
    [][\A taskFile \in Tasks :
          (activeWork # Null /\ ChooseTask(taskFile)) =>
              /\ activeWork' = activeWork
              /\ notices' = <<[kind |-> "alreadyWorking",
                               taskName |-> activeWork[1].taskName]>>]_vars

\* C2: whenever an end-work action empties the ActiveWork slot, that action
\* has written the log line of its session to today's daily note.
C2_ClearedOnlyAfterLogWritten ==
    [][(activeWork # Null /\ activeWork' = Null) =>
          /\ Len(hist') = Len(hist) + 1
          /\ hist'[Len(hist')].outcome = "written"
          /\ dailyKind' = "file"
          /\ IndexOf(dailyContent', hist'[Len(hist')].logLine, 0) # -1]_vars

\* C3: from the moment an end-work action captures the ActiveWork to the
\* moment it has written the note and cleared the slot, no other start-work
\* or end-work action reads or changes the slot.
C3_NoInterleaving ==
    [][(Len(memoModals) + Len(running) > 0) =>
          ~(EndWorkCommand \/ \E taskFile \in Tasks : ChooseTask(taskFile))]_vars

\* the end-work calls that wrote the log line of the session
WritesOf(session) ==
    {k \in 1..Len(hist) : hist[k].outcome = "written" /\ hist[k].session = session}

\* C23: under any interleaving of start-work, end-work and memo submissions
\* (end-work invoked again while a memo dialog is open included), the
\* session of one successful start-work gets at most one log line written
\* to the daily note.
C23_SessionLoggedAtMostOnce ==
    \A k \in 1..Len(hist) : Cardinality(WritesOf(hist[k].session)) <= 1

\* one session started, end-work invoked twice, both dialogs submitted: the
\* note holds two log lines of the one session
C23_SessionLoggedTwice ==
    /\ Len(hist) = 2
    /\ hist[1].session = hist[2].session
    /\ hist[1].outcome = "written" /\ hist[2].outcome = "written"
    /\ dailyKind = "file"
    /\ LET first == IndexOf(dailyContent, hist[1].logLine, 0)
       IN  /\ first # -1
           /\ IndexOf(dailyContent, hist[2].logLine, first + 1) # -1

\* C24: an end-work callback that empties the slot empties it of the
\* session it recorded: the ActiveWork in the slot at that moment is the
\* one the callback's end-work was given, so that no session started later
\* is dropped without a log line.
C24_ClearsOnlyOwnSession ==
    [][(activeWork # Null /\ activeWork' = Null) =>
          /\ Len(hist') = Len(hist) + 1
          /\ hist'[Len(hist')].session = activeWork[1]]_vars

-----------------------------------------------------------------------------
(* The text endWork writes back, over daily notes built from a few lines;   *)
(* a second log line may be put into the note the first one gave.           *)

MaxInsertLines == 4

InsertLines ==
    { HeaderLOG,
      <<>>,
      <<" ", " ">>,
      <<"-", "-", "-">>,
      HeaderMemo,
      <<"#", "#", "#", " ", "L", "O", "G">>,
      <<"#", " ", "t">>,
      <<"-", " ">> \o RangeStr(8, 0, 8, 30) \o <<" ">> \o LinkA }

InsertDocs ==
    {JoinLines(ls) : ls \in SeqsUpTo(InsertLines, MaxInsertLines)} \cup {Template}

\* the log line of a first session, without a memo
FirstLine ==
    LogLine([taskName |-> <<"A">>, startTime |-> StartClock],
            StartClock + 2 * TickMs, <<>>)

\* the log line of a second session, with a memo
SecondLine ==
    LogLine([taskName |-> <<"B">>, startTime |-> StartClock + 2 * TickMs],
            StartClock + 4 * TickMs, <<"m">>)

InitInsert ==
    /\ WorkAtRest
    /\ call = [fn |-> "none"]
    /\ result = <<>>

CallInsertLogLine ==
    /\ call.fn = "none"
    /\ \E content \in InsertDocs :
          /\ call' = [fn |-> "InsertLogLine", content |-> content,
                      logLine |-> FirstLine, first |-> Null]
          /\ result' = InsertLogLine(content, FirstLine, LOG)
    /\ UNCHANGED workVars

\* the next end-work finds the note the first one wrote
CallInsertLogLineAgain ==
    /\ call.fn = "InsertLogLine"
    /\ call.first = Null
    /\ call' = [fn |-> "InsertLogLine", content |-> result,
                logLine |-> SecondLine,
                first |-> Some([content |-> call.content, result |-> result])]
    /\ result' = InsertLogLine(result, SecondLine, LOG)
    /\ UNCHANGED workVars

NextInsert == CallInsertLogLine \/ CallInsertLogLineAgain

SpecInsert == InitInsert /\ [][NextInsert]_vars

IsInsertCall == call.fn = "InsertLogLine"

\* the 0-based position of the first occurrence of the header text, or -1
HeaderPos(content) ==
    LET at == {i \in 0..(Len(content) - Len(HeaderLOG)) :
                  SubSeq(content, i + 1, i + Len(HeaderLOG)) = HeaderLOG}
    IN  IF at = {} THEN -1 ELSE Min(at)

\* the 0-based position of the line break before the first line, after the
\* header, that starts with "##" or "---"; the length of the text if none
SectionEnd(content) ==
    LET afterHeader == HeaderPos(content) + Len(HeaderLOG)
        startsLine(i, p) == /\ content[i + 1] = "\n"
                            /\ i + 1 + Len(p) <= Len(content)
                            /\ SubSeq(content, i + 2, i + 1 + Len(p)) = p
        ends == {i \in afterHeader..(Len(content) - 1) :
                    \/ startsLine(i, <<"#", "#">>)
                    \/ startsLine(i, <<"-", "-", "-">>)}
    IN  IF ends = {} THEN Len(content) ELSE Min(ends)

\* C12: with the header present the log section ends at the first later line
\* that starts with "##" or with "---" (at the end of the text if there is
\* none); the log line is put just before that boundary, and the text up to
\* the header and the text from the boundary on are left as they were.
C12_InsertedBeforeBoundary ==
    (IsInsertCall /\ HeaderPos(call.content) # -1) =>
        LET content     == call.content
            afterHeader == HeaderPos(content) + Len(HeaderLOG)
            boundary    == SectionEnd(content)
            rest        == SubSeq(content, boundary + 1, Len(content))
            inserted    == call.logLine \o <<"\n">>
        IN  /\ SubSeq(result, 1, afterHeader) = SubSeq(content, 1, afterHeader)
            /\ EndsWith(result, <<"\n">> \o inserted \o rest)
            /\ Len(result) <= Len(content) + Len(inserted) + 1
            /\ result = SubSeq(content, 1, afterHeader)
                          \o TrimEnd(SubSeq(content, afterHeader + 1, boundary))
                          \o <<"\n">> \o inserted \o rest

\* a section with an entry, ended by a separator that comes before a header
C12_Witness ==
    /\ IsInsertCall
    /\ call.content = JoinLines(<< HeaderLOG,
                                   <<"-", " ">> \o RangeStr(8, 0, 8, 30) \o <<" ">> \o LinkA,
                                   <<"-", "-", "-">>, HeaderMemo >>)
    /\ result = JoinLines(<< HeaderLOG,
                             <<"-", " ">> \o RangeStr(8, 0, 8, 30) \o <<" ">> \o LinkA,
                             FirstLine, <<>>, <<"-", "-", "-">>, HeaderMemo >>)

\* C13: when the header text occurs nowhere in the note, the text is kept as
\* a prefix and a blank separator line, the header line, a blank line and
\* the log line are appended.
C13_SectionAppended ==
    (IsInsertCall /\ HeaderPos(call.content) = -1) =>
        /\ SubSeq(result, 1, Len(call.content)) = call.content
        /\ SplitLines(result) =
              SplitLines(call.content) \o << <<>>, HeaderLOG, <<>>, call.logLine, <<>> >>

\* a note with a title and a memo section, but no log section
C13_Witness ==
    /\ IsInsertCall
    /\ call.content = JoinLines(<< <<"#", " ", "t">>, <<>>, HeaderMemo >>)
    /\ result = JoinLines(<< <<"#", " ", "t">>, <<>>, HeaderMemo, <<>>, HeaderLOG,
                             <<>>, FirstLine, <<>> >>)

\* the number of blank lines of a text
BlankLines(content) ==
    Cardinality({i \in 1..Len(SplitLines(content)) : Trim(SplitLines(content)[i]) = <<>>})

\* content is: a text without the header, the header, blank lines only, and
\* a "---" line with whatever follows
EmptySectionBeforeSeparator(content) ==
    /\ HeaderPos(content) # -1
    /\ LET afterHeader == HeaderPos(content) + Len(HeaderLOG)
           boundary    == SectionEnd(content)
       IN  /\ boundary + 4 <= Len(content)
           /\ SubSeq(content, boundary + 1, boundary + 4) = <<"\n", "-", "-", "-">>
           /\ \A i \in (afterHeader + 1)..boundary : IsSpace(content[i])

\* C14: in a note whose log section holds only blank lines and is followed
\* by a "---" line, the log line comes on the line right after the header;
\* a further log line comes right after the first and the number of blank
\* lines stays the same; the "---" line and all after it are untouched.
C14_EmptySectionFilled ==
    IsInsertCall =>
        /\ EmptySectionBeforeSeparator(call.content) =>
              LET content == call.content
                  head    == SubSeq(content, 1, HeaderPos(content) + Len(HeaderLOG))
                  rest    == SubSeq(content, SectionEnd(content) + 1, Len(content))
              IN  result = head \o <<"\n">> \o call.logLine \o <<"\n">> \o rest
        /\ (call.first # Null /\ EmptySectionBeforeSeparator(call.first[1].content)) =>
              LET content == call.first[1].content
                  head    == SubSeq(content, 1, HeaderPos(content) + Len(HeaderLOG))
                  rest    == SubSeq(content, SectionEnd(content) + 1, Len(content))
              IN  /\ result = head \o <<"\n">> \o FirstLine \o <<"\n">> \o SecondLine
                                   \o <<"\n">> \o rest
                  /\ BlankLines(result) = BlankLines(call.first[1].result)

\* two log lines put into the note made from the template
C14_Witness ==
    /\ IsInsertCall
    /\ call.first # Null
    /\ call.first[1].content = Template
    /\ BlankLines(call.first[1].result) = BlankLines(Template) - 1
    /\ BlankLines(result) = BlankLines(Template) - 1
    /\ IndexOf(result, HeaderLOG \o <<"\n">> \o FirstLine \o <<"\n">> \o SecondLine
                         \o <<"\n", "\n", "-", "-", "-">>, 0) # -1

\* the session a log line of the model was written for
SessionOf(logLine) ==
    IF logLine = FirstLine
    THEN [taskName |-> <<"A">>, startTime |-> formatTime(StartClock),
          endTime |-> formatTime(StartClock + 2 * TickMs), note |-> <<>>]
    ELSE [taskName |-> <<"B">>, startTime |-> formatTime(StartClock + 2 * TickMs),
          endTime |-> formatTime(StartClock + 4 * TickMs), note |-> <<"m">>]

\* the entry is the one of the session
IsEntryOf(entry, session) ==
    /\ entry.taskName = session.taskName
    /\ entry.startTime = session.startTime
    /\ entry.endTime = session.endTime
    /\ entry.note = session.note

\* C25: for every daily-note text, parseLogEntries on the text with the log
\* line inserted returns the entries of the old text, in their order, and
\* exactly one more, with the task, start, end and memo of the session.
C25_WrittenLineIsParsed ==
    IsInsertCall =>
        LET old == parseLogEntries(call.content, Today, LOG)
            new == parseLogEntries(result, Today, LOG)
        IN  \E k \in 1..Len(new) :
               /\ IsEntryOf(new[k], SessionOf(call.logLine))
               /\ RemoveAt(new, k) = old

\* the note has the heading "### LOG": the line is written under it and
\* parseLogEntries, which wants a line that is "## LOG", returns nothing
C25_WrittenLineNotParsed ==
    /\ IsInsertCall
    /\ call.content = <<"#", "#", "#", " ", "L", "O", "G">>
    /\ IndexOf(result, FirstLine, 0) # -1
    /\ parseLogEntries(result, Today, LOG) = <<>>

-----------------------------------------------------------------------------
(* The time utilities over minute counts, time texts and instants *)

MaxMinutes == 1999

InitTime ==
    /\ WorkAtRest
    /\ call = [fn |-> "none"]
    /\ result = <<>>

CallMinutesToTimeStr ==
    /\ call.fn = "none"
    /\ \E n \in 0..MaxMinutes :
          /\ call' = [fn |-> "minutesToTimeStr", n |-> n]
          /\ result' = minutesToTimeStr(n)
    /\ UNCHANGED workVars

CallFormatDuration ==
    /\ call.fn = "none"
    /\ \E n \in 0..MaxMinutes :
          /\ call' = [fn |-> "formatDuration", n |-> n]
          /\ result' = formatDuration(n)
    /\ UNCHANGED workVars

\* HH:MM written from an hour and a minute
TwoDigits(h, m) ==
    <<DigitChar(h \div 10), DigitChar(h % 10), ":",
      DigitChar(m \div 10), DigitChar(m % 10)>>

\* C15: for n >= 0, minutesToTimeStr(n) is the zero-padded HH:MM of
\* n modulo 1440, with hour floor((n mod 1440) / 60) in 00..23 and minute
\* n mod 60, and minutesToTimeStr(n + 1440) is the same text.
C15_WrapsAtMidnight ==
    call.fn = "minutesToTimeStr" =>
        LET n == call.n
            h == (n % 1440) \div 60
            m == n % 60
        IN  /\ h \in 0..23 /\ m \in 0..59
            /\ result = TwoDigits(h, m)
            /\ minutesToTimeStr(n + 1440) = result

\* 25:07 of the next day reads 01:07
C15_Witness ==
    /\ call.fn = "minutesToTimeStr"
    /\ call.n = 1507
    /\ result = <<"0", "1", ":", "0", "7">>

\* the number a run of digits at the start of text stands for, and the rest
LeadingNumber(text) ==
    LET e == DigitsEnd(text, 0)
    IN  [value |-> ParseInt(SubSeq(text, 1, e)), digits |-> e,
         rest |-> SubSeq(text, e + 1, Len(text))]

\* hours * 60 + minutes read back from a duration text; -1 if the text is
\* not "<h>時間", "<m>分" or "<h>時間<m>分"
ReadDuration(text) ==
    LET first == LeadingNumber(text)
    IN  IF first.digits = 0 THEN -1
        ELSE IF first.rest = Minutes THEN first.value
        ELSE IF first.rest = Hours THEN first.value * 60
        ELSE IF StartsWith(first.rest, Hours)
        THEN LET second == LeadingNumber(SubSeq(first.rest, Len(Hours) + 1,
                                                Len(first.rest)))
             IN  IF second.digits > 0 /\ second.rest = Minutes
                 THEN first.value * 60 + second.value
                 ELSE -1
        ELSE -1

\* C16 as stated: for every n >= 0 the text of formatDuration(n) gives n
\* back, the hour segment is left out when the hours are zero and the minute
\* segment whenever the minutes are zero.
C16_ZeroSegmentsOmitted ==
    call.fn = "formatDuration" =>
        LET n == call.n
        IN  /\ ReadDuration(result) = n
            /\ (n \div 60 = 0) <=> (IndexOf(result, Hours, 0) = -1)
            /\ (n % 60 = 0) <=> (IndexOf(result, Minutes, 0) = -1)

\* C16: for n >= 0 the text of formatDuration(n) gives n back (hours * 60 +
\* minutes) and no other count renders to the same text; the hour segment is
\* left out when the hours are zero and the minute segment when the minutes
\* are zero and the hours are not: zero itself keeps its minute segment
\* (125 -> 2 h 5 min, 60 -> 1 h, 45 -> 45 min, 0 -> 0 min).
C16_DurationRoundTrips ==
    call.fn = "formatDuration" =>
        LET n == call.n
        IN  /\ ReadDuration(result) = n
            /\ \A k \in 0..MaxMinutes : k # n => formatDuration(k) # result
            /\ (n \div 60 = 0) <=> (IndexOf(result, Hours, 0) = -1)
            /\ (n % 60 = 0 /\ n # 0) <=> (IndexOf(result, Minutes, 0) = -1)
            /\ n = 125 => result = <<"2">> \o Hours \o <<"5">> \o Minutes
            /\ n = 60 => result = <<"1">> \o Hours
            /\ n = 45 => result = <<"4", "5">> \o Minutes
            /\ n = 0 => result = <<"0">> \o Minutes

\* a whole number of hours: no minute segment
C16_Witness ==
    /\ call.fn = "formatDuration"
    /\ call.n = 120
    /\ result = <<"2">> \o Hours
    /\ ReadDuration(result) = 120

MaxTimeLen == 5

TimeChars == {"0", "9", ":", "a", " "}

RECURSIVE TextsOfLen(_, _)
TextsOfLen(S, n) ==
    IF n = 0 THEN {<<>>}
    ELSE {<<c>> \o t : c \in S, t \in TextsOfLen(S, n - 1)}

\* every text of up to MaxTimeLen characters: well-formed times, times with
\* one-digit fields, missing fields, letters, surrounding white space
TimeTexts == UNION {TextsOfLen(TimeChars, n) : n \in 0..MaxTimeLen}

\* a call that comes back with a value: the function has no throw statement
\* and split, map and Number raise nothing on a string
Returned(v) == [outcome |-> "returned", value |-> v]

CallParseTimeToMinutes ==
    /\ call.fn = "none"
    /\ \E time \in TimeTexts :
          /\ call' = [fn |-> "parseTimeToMinutes", time |-> time]
          /\ result' = Returned(parseTimeToMinutes(time))
    /\ UNCHANGED workVars

\* the form HH:MM: two digits, a colon, two digits
IsHHMM(time) ==
    /\ Len(time) = 5
    /\ time[3] = ":"
    /\ \A k \in {1, 2, 4, 5} : time[k] \in Digits

\* C17: parseTimeToMinutes fails with a format error on every input that is
\* not of the form HH:MM and never returns a number for it, so that no
\* malformed time reaches adjustForLunchBreak or minutesToTimeStr.
C17_MalformedTimeRejected ==
    (call.fn = "parseTimeToMinutes" /\ ~IsHHMM(call.time)) =>
        result.outcome = "FormatError"

\* the malformed times that come back as a number of minutes, or as NaN
\* which minutesToTimeStr then renders
C17_MalformedTimeReturned ==
    /\ call.fn = "parseTimeToMinutes"
    /\ \/ call.time = <<"9", ":", "9">> /\ result = Returned(549)
       \/ /\ call.time = <<"9", "a">>
          /\ result = Returned(NaN)
          /\ minutesToTimeStr(result.value) = <<"N", "a", "N", ":", "N", "a", "N">>

MaxInstantSteps == 130

\* a step of 7.5 s: the halfway points of every granularity are multiples
InstantStep == 7500

Granularities == {1, timeRoundingMinutes, 15}

\* instants on the grid of steps, and one millisecond before and after
Instants ==
    {k * InstantStep + d : k \in 0..MaxInstantSteps, d \in {0, 1, InstantStep - 1}}

CallRoundTime ==
    /\ call.fn = "none"
    /\ \E ms \in Instants, g \in Granularities :
          /\ call' = [fn |-> "roundTime", ms |-> ms, g |-> g]
          /\ result' = roundTime(ms, g)
    /\ UNCHANGED workVars

NextTime ==
    \/ CallMinutesToTimeStr
    \/ CallFormatDuration
    \/ CallParseTimeToMinutes
    \/ CallRoundTime

SpecTime == InitTime /\ [][NextTime]_vars

\* C18: for t >= 0 and g > 0, roundTime(t, g) is a multiple of g * 60000 ms
\* at most half of g * 60000 ms away from t, an instant exactly halfway
\* between two multiples goes to the later one, and rounding a rounded
\* instant changes nothing.
C18_RoundsToNearestMultiple ==
    call.fn = "roundTime" =>
        LET unit == call.g * 60000
        IN  /\ result % unit = 0
            /\ 2 * Abs(result - call.ms) <= unit
            /\ (2 * (call.ms % unit) = unit) => result > call.ms
            /\ roundTime(result, call.g) = result

\* 00:02:30 at five minutes is halfway and goes to 00:05:00
C18_Witness ==
    /\ call.fn = "roundTime"
    /\ call.g = timeRoundingMinutes
    /\ call.ms = 150000
    /\ result = 300000

-----------------------------------------------------------------------------
(* parsePlanLine over plan lines put together from their parts *)

PlanMarkers == {<<"-", " ">>, <<" ", " ", "-", " ">>}

\* no wikilink, or one
PlanLinks == {Null, Some(LinkA), Some(<<"[", "[", "T", " ", "b", "]", "]">>)}

PlanSubTasks == {<<>>, <<" ", "/", " ", "s">>}

\* a duration written with no token, with one, or with both
DurationText(hours, mins, text) == [hours |-> hours, mins |-> mins, text |-> text]

\* hours as a fraction num / den
Fraction(num, den) == Some([num |-> num, den |-> den])

MinText == <<"3", "0", "m", "i", "n">>

PlanDurations ==
    { DurationText(Null, Null, <<>>),
      DurationText(Null, Some(30), <<" ">> \o MinText),
      DurationText(Null, Some(0), <<" ", "0", "m", "i", "n">>),
      DurationText(Fraction(2, 1), Null, <<" ", "2", "h">>),
      DurationText(Fraction(15, 10), Null, <<" ", "1", ".", "5", "h">>),
      DurationText(Fraction(25, 100), Null, <<" ", "0", ".", "2", "5", "h">>),
      DurationText(Fraction(1125, 1000), Null, <<" ", "1", ".", "1", "2", "5", "h">>),
      DurationText(Fraction(2, 1), Some(30), <<" ", "2", "h", " ">> \o MinText),
      DurationText(Fraction(1, 1), Some(30), <<" ">> \o MinText \o <<" ", "1", "h">>),
      DurationText(Fraction(2, 1), Some(30), <<" ", "2", "h">> \o MinText) }

\* the line: marker, "~~" if struck through, wikilink, sub-task, duration
PlanLineOf(marker, cancelled, link, subTask, duration) ==
    marker \o (IF cancelled THEN <<"~", "~">> ELSE <<>>)
           \o (IF link = Null THEN <<"t">> ELSE link[1])
           \o subTask \o duration.text

InitPlan ==
    /\ WorkAtRest
    /\ call = [fn |-> "none"]
    /\ result = <<>>

CallParsePlanLine ==
    /\ call.fn = "none"
    /\ \E marker \in PlanMarkers, cancelled \in BOOLEAN, link \in PlanLinks,
          subTask \in PlanSubTasks, duration \in PlanDurations :
          /\ call' = [fn |-> "parsePlanLine",
                      line |-> PlanLineOf(marker, cancelled, link, subTask, duration),
                      cancelled |-> cancelled, link |-> link, duration |-> duration]
          /\ result' = parsePlanLine(call'.line)
    /\ UNCHANGED workVars

NextPlan == CallParsePlanLine

SpecPlan == InitPlan /\ [][NextPlan]_vars

\* minutes is a whole number nearest to hours * 60
NearestMinute(minutes, hours) ==
    2 * Abs(minutes * hours.den - hours.num * 60) <= hours.den

\* C19: for a plan line with a wikilink (and not struck through)
\* parsePlanLine gives plannedMinutes >= 0: the number before the "h" token
\* times 60, rounded to the nearest minute, if the line has an hour token;
\* otherwise the integer before the "min" token if it has one; otherwise 0.
\* A line without a wikilink gives no entry.
C19_PlannedMinutesByToken ==
    call.fn = "parsePlanLine" =>
        IF call.link = Null THEN result = Null
        ELSE ~call.cancelled =>
                /\ result # Null
                /\ LET minutes == result[1].plannedMinutes
                       d       == call.duration
                   IN  /\ minutes >= 0
                       /\ IF d.hours # Null THEN NearestMinute(minutes, d.hours[1])
                          ELSE IF d.mins # Null THEN minutes = d.mins[1]
                          ELSE minutes = 0

\* "2h30min": the hour token is passed over and the line counts 30 minutes
C19_GluedHourTokenLost ==
    /\ call.fn = "parsePlanLine"
    /\ call.line = <<"-", " ">> \o LinkA \o <<" ", "2", "h">> \o MinText
    /\ result # Null
    /\ result[1].plannedMinutes = 30

-----------------------------------------------------------------------------
(* commands.ts: createTaskFile.  A task file is known by its title (the    *)
(* date prefix and the folder are the same for every call of a day).       *)

MaxCreates == 3

Titles == {<<"a">>, <<"b">>}

\* window.moment().format("YYYYMMDD")
DatePrefix == "20261106"

\* fileName, `${datePrefix}-${title}.md`
FileName(title) == <<DatePrefix, "-">> \o title \o <<".", "m", "d">>

ExistsNotice(title) == <<"exists", FileName(title)>>

CreatedNotice(title) == <<"created", FileName(title)>>

\* the existence check skipped
Existing_Never(vault, title) == FALSE

\* app.vault.getAbstractFileByPath(filePath)
Existing(vault, title) == title \in vault.files

\* a createTaskFile call that came to its end
Return(title, value) == [title |-> title, value |-> value]

InitTask ==
    /\ SessionAtRest /\ SettingsAtRest /\ HistoryAtRest
    /\ call = [fn |-> "none"]
    /\ result = <<>>
    /\ \E files \in SUBSET Titles, folder \in BOOLEAN :
          /\ files # {} => folder
          /\ taskVault = [folder |-> folder, files |-> files]
    /\ creating = <<>>
    /\ returned = <<>>

\* createTaskFile(app, title, ...) up to its first await or its return
CreateTaskFile(title) ==
    /\ Len(creating) + Len(returned) < MaxCreates
    /\ IF Existing(taskVault, title)
       THEN /\ notices' = <<ExistsNotice(title)>>
            /\ returned' = Append(returned, Return(title, "null"))
            /\ UNCHANGED creating
       ELSE /\ notices' = <<>>
            /\ creating' = Append(creating,
                   [title |-> title,
                    pc |-> IF taskVault.folder THEN "create" ELSE "createFolder"])
            /\ UNCHANGED returned
    /\ UNCHANGED <<taskVault, sessionVars, call, result, settingVars, historyVars>>

\* vault.createFolder settles: it rejects if the folder is there by now;
\* otherwise createTaskFile goes on to vault.create
TaskFolderCreated(j) ==
    /\ j \in 1..Len(creating)
    /\ creating[j].pc = "createFolder"
    /\ notices' = <<>>
    /\ IF taskVault.folder
       THEN /\ creating' = RemoveAt(creating, j)
            /\ returned' = Append(returned, Return(creating[j].title, "rejected"))
            /\ UNCHANGED taskVault
       ELSE /\ taskVault' = [taskVault EXCEPT !.folder = TRUE]
            /\ creating' = [creating EXCEPT ![j].pc = "create"]
            /\ UNCHANGED returned
    /\ UNCHANGED <<sessionVars, call, result, settingVars, historyVars>>

\* vault.create settles: it rejects if a file is at the path by now;
\* otherwise the file is there and createTaskFile returns it
TaskFileCreated(j) ==
    /\ j \in 1..Len(creating)
    /\ creating[j].pc = "create"
    /\ creating' = RemoveAt(creating, j)
    /\ IF creating[j].title \in taskVault.files
       THEN /\ notices' = <<>>
            /\ returned' = Append(returned, Return(creating[j].title, "rejected"))
            /\ UNCHANGED taskVault
       ELSE /\ taskVault' = [taskVault EXCEPT !.files = @ \cup {creating[j].title}]
            /\ notices' = <<CreatedNotice(creating[j].title)>>
            /\ returned' = Append(returned, Return(creating[j].title, "file"))
    /\ UNCHANGED <<sessionVars, call, result, settingVars, historyVars>>

NextTask ==
    \/ \E title \in Titles : CreateTaskFile(title)
    \/ \E j \in 1..MaxCreates : TaskFolderCreated(j)
    \/ \E j \in 1..MaxCreates : TaskFileCreated(j)

SpecTask == InitTask /\ [][NextTask]_vars

\* the createTaskFile calls made so far for a title
CallsFor(title, pending, done) ==
    Len(SelectSeq(pending, LAMBDA c : c.title = title))
        + Len(SelectSeq(done, LAMBDA r : r.title = title))

\* a step in which createTaskFile is called with the title
IsCreateCall(title) ==
    CallsFor(title, creating', returned') = CallsFor(title, creating, returned) + 1

\* C21: a createTaskFile call whose file path exists shows the notice and
\* returns null, creating no file and no folder and leaving every file as
\* it is; a task file comes to be only at a path where none was, and the
\* tasks folder only on the way to such a file.
C21_ExistingTaskNotOverwritten ==
    [][/\ \A title \in Titles :
             (IsCreateCall(title) /\ title \in taskVault.files) =>
                 /\ returned' = Append(returned, Return(title, "null"))
                 /\ notices' = <<ExistsNotice(title)>>
                 /\ taskVault' = taskVault
                 /\ creating' = creating
       /\ taskVault.files \subseteq taskVault'.files
       /\ \A title \in taskVault'.files \ taskVault.files :
             /\ taskVault'.folder
             /\ \E j \in 1..Len(creating) : creating[j].title = title
             /\ returned' = Append(returned, Return(title, "file"))
       /\ (taskVault'.folder /\ ~taskVault.folder) =>
             /\ taskVault.files = {}
             /\ \E j \in 1..Len(creating') : creating'[j].pc = "create"
    ]_vars

\* a title is created and then asked for again: the second call returns null
C21_Witness ==
    /\ returned = <<Return(<<"a">>, "file"), Return(<<"a">>, "null")>>
    /\ taskVault = [folder |-> TRUE, files |-> {<<"a">>}]
    /\ notices = <<ExistsNotice(<<"a">>)>>

-----------------------------------------------------------------------------
(* settings-tab.ts: the onChange handlers of the time settings *)

MaxEdits == 3

\* a number too large for a double, and a finite one too large for the
\* integers of the model
Infinity == 999999990

Huge == Infinity - 1

\* the largest double has 309 digits: an integer of more digits is Infinity
DoubleDigits == 309

\* parseInt(value): leading white space and a sign are skipped and the
\* longest run of digits is read; no digit gives NaN.  (The texts of the
\* model have no "0x" prefix.)
JsParseInt(value) ==
    LET t        == TrimStart(value)
        signed   == Len(t) > 0 /\ t[1] \in {"+", "-"}
        body     == IF signed THEN Tail(t) ELSE t
        digits   == SubSeq(body, 1, DigitsEnd(body, 0))
        zeros    == {k \in 0..Len(digits) : \A j \in 1..k : digits[j] = "0"}
        sig      == SubSeq(digits, Max(zeros) + 1, Len(digits))
        magnitude == IF Len(sig) = 0 THEN 0
                     ELSE IF Len(sig) <= 8 THEN ParseInt(sig)
                     ELSE IF Len(sig) > DoubleDigits THEN Infinity
                     ELSE Huge
    IN  IF Len(digits) = 0 THEN NaN
        ELSE IF signed /\ t[1] = "-" THEN 0 - magnitude
        ELSE magnitude

\* every text taken as well-formed
LunchFormatTest_Any(value) == TRUE

\* /^\d{2}:\d{2}$/.test(value)
LunchFormatTest(value) ==
    /\ Len(value) = 5
    /\ value[1] \in Digits /\ value[2] \in Digits
    /\ value[3] = ":"
    /\ value[4] \in Digits /\ value[5] \in Digits

\* a text of more digits than a double has
LongDigits == [i \in 1..(DoubleDigits + 1) |-> "9"]

\* what is typed into the rounding field
RoundingTexts ==
    { <<"5">>, <<"1", "5">>, <<"0">>, <<"-", "3">>, <<"a">>, <<>>,
      <<"7", ".", "5">>, <<"3", "x">>, <<" ", "1", "0">>, LongDigits }

\* what is typed into a lunch field
LunchTexts ==
    { <<"1", "2", ":", "3", "0">>, <<"0", "9", ":", "0", "0">>,
      <<"9", ":", "0", "0">>, <<"1", "2", ":", "3">>, <<"a", "b", ":", "c", "d">>,
      <<>>, <<"1", "2", ":", "0", "0", " ">>, <<"2", "5", ":", "9", "9">>,
      <<"1", "2", "3", "0">> }

InitSettings ==
    /\ SessionAtRest /\ TaskAtRest /\ HistoryAtRest
    /\ call = [fn |-> "none"]
    /\ result = <<>>
    /\ settings = DEFAULT_SETTINGS
    /\ editLog = [edits |-> 0, saves |-> 0, last |-> Null]

\* the log after one more onChange event
Edited(field, value, saved) ==
    [edits |-> editLog.edits + 1,
     saves |-> editLog.saves + (IF saved THEN 1 ELSE 0),
     last  |-> Some([field |-> field, value |-> value])]

\* onChange of the rounding field
EditTimeRounding(value) ==
    /\ editLog.edits < MaxEdits
    /\ LET num == JsParseInt(value)
       IN  IF ~IsNaN(num) /\ num > 0
           THEN /\ settings' = [settings EXCEPT !.timeRoundingMinutes = num]
                /\ editLog' = Edited("timeRoundingMinutes", value, TRUE)
           ELSE /\ editLog' = Edited("timeRoundingMinutes", value, FALSE)
                /\ UNCHANGED settings
    /\ UNCHANGED <<sessionVars, notices, call, result, taskVars, historyVars>>

\* onChange of the lunch start field
EditLunchStart(value) ==
    /\ editLog.edits < MaxEdits
    /\ IF LunchFormatTest(value)
       THEN /\ settings' = [settings EXCEPT !.lunchStartTime = value]
            /\ editLog' = Edited("lunchStartTime", value, TRUE)
       ELSE /\ editLog' = Edited("lunchStartTime", value, FALSE)
            /\ UNCHANGED settings
    /\ UNCHANGED <<sessionVars, notices, call, result, taskVars, historyVars>>

\* onChange of the lunch end field
EditLunchEnd(value) ==
    /\ editLog.edits < MaxEdits
    /\ IF LunchFormatTest(value)
       THEN /\ settings' = [settings EXCEPT !.lunchEndTime = value]
            /\ editLog' = Edited("lunchEndTime", value, TRUE)
       ELSE /\ editLog' = Edited("lunchEndTime", value, FALSE)
            /\ UNCHANGED settings
    /\ UNCHANGED <<sessionVars, notices, call, result, taskVars, historyVars>>

NextSettings ==
    \/ \E value \in RoundingTexts : EditTimeRounding(value)
    \/ \E value \in LunchTexts : EditLunchStart(value)
    \/ \E value \in LunchTexts : EditLunchEnd(value)

SpecSettings == InitSettings /\ [][NextSettings]_vars

\* a step that is an onChange of one of the fields with a value of the set
IsEdit(fields, values) ==
    /\ editLog'.edits = editLog.edits + 1
    /\ editLog'.last[1].field \in fields
    /\ editLog'.last[1].value \in values

\* an edit that leaves the settings as they are, saves nothing, shows nothing
Rejected ==
    /\ settings' = settings
    /\ editLog'.saves = editLog.saves
    /\ notices' = notices

\* C22: an edit of a lunch time that is not of the form HH:MM is rejected
\* silently (the setting keeps its value, nothing is saved, no notice), so
\* from the defaults on both lunch settings are always two digits, a colon
\* and two digits.
C22_MalformedLunchEditRejected ==
    /\ [](IsHHMM(settings.lunchStartTime) /\ IsHHMM(settings.lunchEndTime))
    /\ [][IsEdit({"lunchStartTime", "lunchEndTime"}, {v \in LunchTexts : ~IsHHMM(v)})
            => Rejected]_vars

\* 12:30 is accepted and saved, then 9:00 is typed and 12:30 stays
C22_Witness ==
    /\ editLog = [edits |-> 2, saves |-> 1,
                  last |-> Some([field |-> "lunchStartTime",
                                 value |-> <<"9", ":", "0", "0">>])]
    /\ settings.lunchStartTime = <<"1", "2", ":", "3", "0">>

\* x is a whole number above zero
IsPositiveInteger(x) == x \in 1..(Huge - 1) \/ x = Huge

\* C29: from the defaults on, timeRoundingMinutes is a positive integer after
\* any edits (an edit that is not a number or is <= 0 leaves the value and
\* saves nothing), so roundTime never gets a granularity of zero or less.
C29_RoundingPositiveInteger ==
    /\ [](IsPositiveInteger(settings.timeRoundingMinutes))
    /\ [][IsEdit({"timeRoundingMinutes"},
                 {v \in RoundingTexts : IsNaN(JsParseInt(v)) \/ JsParseInt(v) <= 0})
            => Rejected]_vars

\* a text of 310 digits is parsed as Infinity and stored
C29_InfinityStored ==
    /\ editLog.last = Some([field |-> "timeRoundingMinutes", value |-> LongDigits])
    /\ settings.timeRoundingMinutes = Infinity

-----------------------------------------------------------------------------
(* endWork: the duration it reports and the duration read back from its line *)

MaxSessionSteps == 12

\* sessions last a multiple of seven and a half minutes
SessionStep == 450000

\* the clock at start-work: in the morning, and shortly before midnight
SessionStarts == {StartClock, StartClock + TickMs,
                  23 * 3600000 + 30 * 60000, 23 * 3600000 + 45 * 60000 + TickMs}

InitSession ==
    /\ WorkAtRest
    /\ call = [fn |-> "none"]
    /\ result = <<>>

\* startWork at the clock `startedAt`, endWork at the clock `endedAt`: the
\* line written, the minutes of the notice, and the line parsed
CallEndWork ==
    /\ call.fn = "none"
    /\ \E startedAt \in SessionStarts, k \in 0..MaxSessionSteps, task \in Tasks, memo \in Memos :
          LET work     == startWork(task, Null, startedAt).activeWork
              endedAt  == startedAt + k * SessionStep
              endTime  == roundTime(endedAt, timeRoundingMinutes)
              logLine  == LogLine(work, endTime, memo)
          IN  /\ call' = [fn |-> "endWork", activeWork |-> work,
                          now |-> endedAt, memo |-> memo]
              /\ result' = [logLine         |-> logLine,
                            durationMinutes |-> DurationMinutes(work.startTime, endTime),
                            parsed          |-> parseLogLine(logLine, TodayText)]
    /\ UNCHANGED workVars

NextSession == CallEndWork

SpecSession == InitSession /\ [][NextSession]_vars

\* C28: the minutes end-work reports for a session are the durationMinutes
\* parseLogLine derives from the line it wrote, also for a session that
\* ends on the next calendar day.
C28_ReportedIsParsed ==
    call.fn = "endWork" =>
        /\ result.parsed # Null
        /\ result.parsed[1].durationMinutes = result.durationMinutes

\* started 23:47:30 (23:50), ended 00:02:30 (00:05): 15 minutes reported,
\* 0 read back
C28_MidnightSessionReadAsZero ==
    /\ call.fn = "endWork"
    /\ formatTime(call.activeWork.startTime) = <<"2", "3", ":", "5", "0">>
    /\ result.durationMinutes = 15
    /\ result.parsed # Null
    /\ result.parsed[1].endTime = <<"0", "0", ":", "0", "5">>
    /\ result.parsed[1].durationMinutes = 0

-----------------------------------------------------------------------------
(* history-view.ts: the post-processor that puts the work history under a  *)
(* task file; the render is deferred by a timer and then awaits the daily  *)
(* notes being read                                                         *)

MaxRenderCalls == 4

\* the daily notes getTaskWorkLogs reads, one await for each
DailyNotes == 2

tasksFolder == <<"5", "-", "t", "a", "s", "k", "s">>

HistoryPath(folder, basename) == folder \o <<"/">> \o basename \o <<".", "m", "d">>

\* the pages rendered: the task files, a task page whose file is gone, and
\* a daily note
SourcePaths ==
    {HistoryPath(tasksFolder, t) : t \in Tasks}
        \cup {HistoryPath(tasksFolder, <<"G">>),
              HistoryPath(<<"2", "-", "d", "a", "i", "l", "y">>, TodayText)}

\* app.vault.getAbstractFileByPath(filePath) instanceof TFile
IsTFile(filePath) == \E t \in Tasks : filePath = HistoryPath(tasksFolder, t)

\* the test for a pending render left out
HasPending_Never(pending, filePath) == FALSE

\* pendingRenders.has(filePath)
HasPending(pending, filePath) == filePath \in pending

\* the path deleted only when the render completed
Settled_OnCompletionOnly(pending, filePath, outcome) ==
    IF outcome = "threw" THEN pending ELSE pending \ {filePath}

\* finally { pendingRenders.delete(filePath) }, after either outcome
Settled(pending, filePath, outcome) == pending \ {filePath}

InitHistory ==
    /\ SessionAtRest /\ TaskAtRest /\ SettingsAtRest /\ HistoryAtRest
    /\ call = [fn |-> "none"]
    /\ result = <<>>

\* the render is under way: its timer is set or it awaits a read
Outstanding(render) == render.stage \in {"timer", "reading"}

\* the post-processor called for a block of the page filePath
PostProcess(filePath) ==
    /\ processed < MaxRenderCalls
    /\ processed' = processed + 1
    /\ IF /\ settings.autoShowHistory
          /\ StartsWith(filePath, tasksFolder \o <<"/">>)
          /\ IsTFile(filePath)
          /\ ~HasPending(pendingRenders, filePath)
       THEN /\ pendingRenders' = pendingRenders \cup {filePath}
            /\ renders' = Append(renders, [filePath |-> filePath, stage |-> "timer",
                                           left |-> DailyNotes])
       ELSE UNCHANGED <<pendingRenders, renders>>
    /\ UNCHANGED <<sessionVars, notices, call, result, taskVars, settingVars>>

\* the timer of a render fires, timers of one delay in the order they were
\* set: renderHistoryInPlace runs up to the first read of getTaskWorkLogs
TimerFires(id) ==
    /\ id \in 1..Len(renders)
    /\ renders[id].stage = "timer"
    /\ \A earlier \in 1..(id - 1) : renders[earlier].stage # "timer"
    /\ renders' = [renders EXCEPT ![id].stage = "reading"]
    /\ UNCHANGED <<pendingRenders, processed>>
    /\ UNCHANGED <<sessionVars, notices, call, result, taskVars, settingVars>>

\* the render ends, the table drawn or an error thrown, and the finally
\* clause runs
Finished(id, outcome) ==
    /\ renders' = [renders EXCEPT ![id].stage = outcome, ![id].left = 0]
    /\ pendingRenders' = Settled(pendingRenders, renders[id].filePath, outcome)

\* a read awaited by a render settles: rejected, it throws out of the
\* render; resolved, the next note is read or the render completes
ReadSettles(id, resolved) ==
    /\ id \in 1..Len(renders)
    /\ renders[id].stage = "reading"
    /\ IF ~resolved THEN Finished(id, "threw")
       ELSE IF renders[id].left > 1
       THEN /\ renders' = [renders EXCEPT ![id].left = @ - 1]
            /\ UNCHANGED pendingRenders
       ELSE Finished(id, "completed")
    /\ UNCHANGED processed
    /\ UNCHANGED <<sessionVars, notices, call, result, taskVars, settingVars>>

\* the toggle of the settings tab
ToggleAutoShowHistory ==
    /\ settings' = [settings EXCEPT !.autoShowHistory = ~@]
    /\ UNCHANGED <<sessionVars, notices, call, result, taskVars, editLog, historyVars>>

NextHistory ==
    \/ \E filePath \in SourcePaths : PostProcess(filePath)
    \/ \E id \in 1..MaxRenderCalls : TimerFires(id)
    \/ \E id \in 1..MaxRenderCalls, resolved \in BOOLEAN : ReadSettles(id, resolved)
    \/ ToggleAutoShowHistory

\* a timer that is set fires, and a read that is awaited settles
HistoryFairness ==
    \A id \in 1..MaxRenderCalls :
        /\ WF_vars(TimerFires(id))
        /\ WF_vars(\E resolved \in BOOLEAN : ReadSettles(id, resolved))

SpecHistory == InitHistory /\ [][NextHistory]_vars

SpecHistoryLive == SpecHistory /\ HistoryFairness

\* the renders under way for a page
OutstandingFor(filePath) ==
    {id \in 1..Len(renders) : renders[id].filePath = filePath /\ Outstanding(renders[id])}

\* C30: at most one deferred render is outstanding for a task file path at
\* any time, and a path added to the pending set is removed again when its
\* render finishes, whether it completes or throws: no path stays pending
\* forever.
C30_OnePendingRenderAndReleased ==
    /\ [](\A filePath \in SourcePaths :
             /\ Cardinality(OutstandingFor(filePath)) <= 1
             /\ (filePath \in pendingRenders) = (OutstandingFor(filePath) # {}))
    /\ \A filePath \in SourcePaths :
          (filePath \in pendingRenders) ~> (filePath \notin pendingRenders)

\* a render of A threw and the path was released: a second render of A is
\* under way, alone
C30_Witness ==
    LET pathA == HistoryPath(tasksFolder, <<"A">>)
    IN  /\ Len(renders) = 2
        /\ renders[1].filePath = pathA /\ renders[1].stage = "threw"
        /\ renders[2].filePath = pathA /\ renders[2].stage = "reading"
        /\ pendingRenders = {pathA}

====
